---- MODULE Spec2Model ----
(***************************************************************************)
(* Controlbox object framework: the capability flags, the object /        *)
(* container / value type lattice, the container borrow protocol, id-chain *)
(* resolution, the depth-first tree walker and the persisted-address       *)
(* back-reference (controlbox/src/lib/Values.h).                           *)
(***************************************************************************)
EXTENDS Integers, Sequences, FiniteSets, TLC

VARIABLES
    heap,       \* object store: cell -> object record (cell 0 is the null pointer)
    fptr,       \* flags section: the Object* handed to the predicates
    fres,       \* flags section: what the predicates and objectFlags() answered
    borrowed,   \* items handed out by item() and not yet given back: [c, id, item]
    handed,     \* every instance a FactoryContainer's item() has ever handed out
    last,       \* the last container call a caller made, with its result
    lres,       \* the last id-chain resolution: its chain, result and calls
    wres,       \* the last walkRoot call: its callback invocations and result
    eeprom,     \* the persisted storage behind EepromAccess: offset -> byte
    eobj,       \* the EepromAwareValue and the EepromAwareWritableValue object
    egiven,     \* per object, the arguments of its first and its last rehydrated() call
    eres,       \* the last eeprom_offset() / eepromSize() call and its result
    ticks,      \* the millisecond tick counter, ticks.millis()
    sched,      \* per resident object, where it is in its prepare() / update() cycle
    pass,       \* the last run of the object update step: state before, time, calls made
    blk,        \* the SysInfoBlock
    sin,        \* the DataIn handed to the block: the bytes not yet read
    sout,       \* the DataOut handed to the block: the bytes written so far
    sres,       \* the last call on the block: its result and the state before it
    lastTick,   \* displayTick's static lastTick
    disp,       \* the last displayTick call: its tick, lastTick before it, whether it polled
    jumps,      \* how often time has been advanced in the display section
    wifi,       \* what WiFi answered in the last manageConnections() call
    mdns_started, \* the global mdns_started
    mdns,       \* what has been called on mdns so far
    lp          \* the application thread: the call it is in or has made last, where it
                \* stands in it, and the calls made inside it, in order

flagVars == <<fptr, fres>>
treeVars == <<borrowed, handed, last>>
callVars == <<lres, wres>>
eepromVars == <<eeprom, eobj, egiven, eres>>
loopVars == <<ticks, sched, pass>>
vars == <<heap, fptr, fres, borrowed, handed, last, lres, wres, eeprom, eobj, egiven, eres,
          ticks, sched, pass, blk, sin, sout, sres, lastTick, disp, jumps,
          wifi, mdns_started, mdns, lp>>
netVars == <<wifi, mdns_started, mdns, lp>>
dispVars == <<lastTick, disp, jumps>>
blockVars == <<blk, sin, sout, sres>>

\* ------------------------------------------------------------- bounds
\* Number of heap cells besides the null pointer: the objects a run may create.
MaxObjs == 6
\* Slots of an application container.
SlotCount == 3
\* Items a caller holds borrowed at the same time.
MaxBorrow == 2
\* Ids a chain handed to the resolver holds beyond MAX_CONTAINER_DEPTH.
ExtraIds == 1
\* The latest callback invocation at which a walker callback signals stop.
MaxStop == 26
\* Objects resident in the box that the update step drives.
NumResident == 2
\* The longest delay a prepare() call asks for.
MaxDelay == 2
\* The tick up to which the update step is followed.
MaxTime == 4
\* Bytes in the DataIn handed to a block, and messages a DataOut takes.
MaxIn == 3
MaxOut == 2
\* How often time is advanced between displayTick calls.
MaxJumps == 6
\* Passes of the control loop start until this long after the wait of setup().
MaxLoopTime == 40

\* ------------------------------------------------- program constants
\* ObjectFlags::Enum, Values.h:41-50
ObjectFlags_Object == 0
ObjectFlags_Value == 4
ObjectFlags_Container == 8
ObjectFlags_WritableFlag == 1
ObjectFlags_hasStateFlag == 2
ObjectFlags_OpenContainerFlag == 1
ObjectFlags_NotLogged == 16
ObjectFlags_StaticlyAllocated == 32

\* const container_id INVALID_ID = (container_id)(-1)
INVALID_ID == -1
MAX_CONTAINER_DEPTH == 3
MAX_CONTAINER_ID == 127

\* object_flags_t is uint8_t
FlagBits == 8

NULL == 0

\* ------------------------------------------------ C integer operators
RECURSIVE Pow2(_)
Pow2(n) == IF n = 0 THEN 1 ELSE 2 * Pow2(n - 1)

\* a & b on unsigned values
RECURSIVE BitAnd(_, _)
BitAnd(a, b) ==
    IF a = 0 \/ b = 0 THEN 0
    ELSE (a % 2) * (b % 2) + 2 * BitAnd(a \div 2, b \div 2)

\* a | b on unsigned values
RECURSIVE BitOr(_, _)
BitOr(a, b) ==
    IF a = 0 THEN b
    ELSE IF b = 0 THEN a
    ELSE (IF a % 2 = 1 \/ b % 2 = 1 THEN 1 ELSE 0) + 2 * BitOr(a \div 2, b \div 2)

\* conversion of an int expression to object_flags_t (uint8_t)
ToFlags(v) == v % Pow2(FlagBits)

\* ------------------------------------------------------ type lattice
\* The classes Values.h declares.  "Derived" stands for an application class
\* that overrides objectFlags() and reports the value kept in its rep field.
Lattice == {"Object", "Container", "FactoryContainer", "OpenContainer", "Value",
            "WritableValue", "EepromAwareValue", "EepromAwareWritableValue"}

\* The base class each class is derived from.
BaseOf(cls) ==
    CASE cls = "Container" -> "Object"
      [] cls = "FactoryContainer" -> "Container"
      [] cls = "OpenContainer" -> "Container"
      [] cls = "Value" -> "Object"
      [] cls = "WritableValue" -> "Value"
      [] cls = "EepromAwareValue" -> "Value"
      [] cls = "EepromAwareWritableValue" -> "WritableValue"
      [] OTHER -> "Object"

\* virtual object_flags_t objectFlags(), one definition per override
Object_objectFlags == ToFlags(ObjectFlags_Object)

Container_objectFlags == ToFlags(BitOr(Object_objectFlags, ObjectFlags_Container))

OpenContainer_objectFlags_NoBase == ToFlags(BitOr(Object_objectFlags, ObjectFlags_OpenContainerFlag))
OpenContainer_objectFlags == ToFlags(BitOr(Container_objectFlags, ObjectFlags_OpenContainerFlag))

Value_objectFlags == ToFlags(BitOr(Object_objectFlags, ObjectFlags_Value))

WritableValue_objectFlags == ToFlags(BitOr(Value_objectFlags, ObjectFlags_WritableFlag))

\* Virtual dispatch of objectFlags() on the dynamic class of an object record.
\* FactoryContainer and the EepromAware classes do not override it.
objectFlags(obj) ==
    CASE obj.cls = "Object" -> Object_objectFlags
      [] obj.cls = "Container" -> Container_objectFlags
      [] obj.cls = "FactoryContainer" -> Container_objectFlags
      [] obj.cls = "OpenContainer" -> OpenContainer_objectFlags
      [] obj.cls = "Value" -> Value_objectFlags
      [] obj.cls = "WritableValue" -> WritableValue_objectFlags
      [] obj.cls = "EepromAwareValue" -> Value_objectFlags
      [] obj.cls = "EepromAwareWritableValue" -> WritableValue_objectFlags
      [] obj.cls = "Derived" -> obj.rep

\* ------------------------------------------------------ flag predicates
hasFlags_Nonzero(value, flags) == BitAnd(value, flags) # 0
hasFlags(value, flags) == BitAnd(value, flags) = flags

isContainer_AsOpen(h, o) ==
    o # NULL /\ hasFlags(objectFlags(h[o]), BitOr(ObjectFlags_Container, ObjectFlags_OpenContainerFlag))
isContainer(h, o) ==
    o # NULL /\ hasFlags(objectFlags(h[o]), ObjectFlags_Container)

isOpenContainer(h, o) ==
    o # NULL /\ hasFlags(objectFlags(h[o]), BitOr(ObjectFlags_Container, ObjectFlags_OpenContainerFlag))

isValue(h, o) ==
    o # NULL /\ hasFlags(objectFlags(h[o]), ObjectFlags_Value)

isLoggedValue(h, o) ==
    o # NULL /\ BitAnd(objectFlags(h[o]), BitOr(ObjectFlags_Value, ObjectFlags_NotLogged)) = ObjectFlags_Value

isDynamicallyAllocated(h, o) ==
    o # NULL /\ BitAnd(objectFlags(h[o]), ObjectFlags_StaticlyAllocated) = 0

isWritable(h, o) ==
    o # NULL /\ hasFlags(objectFlags(h[o]), ObjectFlags_WritableFlag)

\* ------------------------------------------------------ object records
Cells == 1..MaxObjs

\* A heap cell that holds no object yet.
FreeCell == [cls |-> "free", rep |-> 0, impl |-> "base", slots |-> <<>>, makes |-> "none", frees |-> 0]

\* An object of class cls as Values.h declares it; rep is the flags value a
\* Derived class reports.
NewObject(cls, rep) ==
    [cls |-> cls, rep |-> rep, impl |-> "base", slots |-> <<>>, makes |-> "none", frees |-> 0]

EmptyHeap == [c \in Cells |-> FreeCell]

\* ------------------------------------------------------ flags section
NoAnswer == [asked |-> FALSE]

\* No id chain resolved yet.
NoLookup == [op |-> "none", chain |-> <<>>, pre |-> <<>>, res |-> NULL, log |-> <<>>,
             consumed |-> 0]

\* No walk made yet.
NoWalk == [op |-> "none", stopAt |-> 0, log |-> <<>>, ret |-> FALSE, signalled |-> FALSE]

\* No container call made yet.
NoCall == [op |-> "none", c |-> NULL, id |-> 0, res |-> NULL, ok |-> FALSE,
           paired |-> FALSE, fresh |-> FALSE, obs |-> <<>>]

\* The two classes that keep the address of their persisted definition.
EepromAwareClasses == {"EepromAwareValue", "EepromAwareWritableValue"}

\* The offsets of the persisted storage that are modelled, and the bytes they hold.
EepromOffsets == {0, 100, 101}
EepromBytes == {0, 5, 255}

\* Addresses handed to rehydrated(): with the length prefix inside the modelled
\* storage (1, 101, 102) and outside it (0, 100).
EepromAddresses == {0, 1, 100, 101, 102}

\* eptr_t: an unsigned 16-bit offset into the persisted storage.
EptrBits == 16

\* The conversion of an int to eptr_t.
Eptr(n) == n % Pow2(EptrBits)

\* eptr_t address = -1; the initializer converts to 65535.
EepromAware_New == [address |-> Eptr(-1), val |-> 0]

\* No eeprom_offset() / eepromSize() call made yet.
NoEepromCall == [op |-> "none", cls |-> "", res |-> 0]

\* Erased storage and two objects that have not been rehydrated.
EepromStart ==
    /\ eeprom = [o \in EepromOffsets |-> 0]
    /\ eobj = [c \in EepromAwareClasses |-> EepromAware_New]
    /\ egiven = [c \in EepromAwareClasses |->
                    [called |-> FALSE, first |-> 0, a |-> 0, since |-> {}]]
    /\ eres = NoEepromCall

\* ticks_millis_t: an unsigned 32-bit counter, kept as <<high half, low half>>.
HalfBits == 16
Half == Pow2(HalfBits)

\* The conversion of an int to ticks_millis_t, for |n| < 2^16.
U32_FromInt(n) == IF n >= 0 THEN <<0, n>> ELSE <<Half - 1, Half + n>>

\* x + n in ticks_millis_t, for 0 <= n < 2^16.
U32_Add(x, n) == <<(x[1] + ((x[2] + n) \div Half)) % Half, (x[2] + n) % Half>>

\* x > y in ticks_millis_t.
U32_Gt(x, y) == x[1] > y[1] \/ (x[1] = y[1] /\ x[2] > y[2])

\* x + y and x - y in ticks_millis_t.
U32_Plus(x, y) == <<(x[1] + y[1] + ((x[2] + y[2]) \div Half)) % Half, (x[2] + y[2]) % Half>>
U32_Minus(x, y) ==
    <<(x[1] - y[1] - (IF x[2] < y[2] THEN 1 ELSE 0) + Half) % Half, (x[2] - y[2] + Half) % Half>>

\* The 40 of lastTick = -40 and of now > lastTick + 40.
DisplayPeriod == 40

\* displayTick has not been called yet.
NoDisplayTick == [op |-> "none", now |-> U32_FromInt(0), prev |-> U32_FromInt(0),
                  polled |-> FALSE, before |-> FALSE]

\* static ticks_millis_t lastTick = -40;
DisplayStart ==
    /\ lastTick = U32_FromInt(-DisplayPeriod)
    /\ disp = NoDisplayTick
    /\ jumps = 0

\* What WiFi.ready(), WiFi.listening() and WiFi.connecting() answer when
\* manageConnections() asks: the system thread runs the WiFi module beside the
\* application, so each answer is an input of its own.
WifiAnswers == [ready : BOOLEAN, listening : BOOLEAN, connecting : BOOLEAN]

\* Neither setup() nor loop() has run yet.
NoLoop == [op |-> "none", pc |-> "idle", trace |-> <<>>, listening |-> FALSE,
           updateAt |-> <<0, 0>>, polls |-> 0, step |-> 0, handler |-> FALSE]

\* auto mdns_started = bool(false); WiFi has not been asked anything yet.
NetStart ==
    /\ wifi = [ready |-> FALSE, listening |-> FALSE, connecting |-> FALSE]
    /\ mdns_started = FALSE
    /\ mdns = [begun |-> FALSE, beginAgain |-> FALSE, queriesEarly |-> FALSE]
    /\ lp = NoLoop

\* An object between two prepare() / update() cycles.
Idle == [phase |-> "idle", t |-> U32_FromInt(0), d |-> 0]

\* The update step has not run yet.
NoPass == [op |-> "none", pre |-> <<>>, at |-> U32_FromInt(0), events |-> <<>>]

\* After construction, before setup(): the tick counter at 0, every resident
\* object between cycles.
LoopStart ==
    /\ ticks = U32_FromInt(0)
    /\ sched = [o \in 1..NumResident |-> Idle]
    /\ pass = NoPass

\* The bytes a stream carries.
WireBytes == {0, 255}

\* The contents of a DataIn.
InStreams == UNION {[1..n -> WireBytes] : n \in 0..MaxIn}

\* class SysInfoBlock : public cbox::Object, which declares no data member.
SysInfoBlock_New == [class |-> "SysInfoBlock"]

\* No call made on the block yet.
NoBlockCall == [op |-> "none", res |-> "", now |-> 0,
                pre |-> [blk |-> SysInfoBlock_New, in |-> <<>>, out |-> <<>>]]

\* A block, an empty DataIn and an empty DataOut.
BlockStart ==
    /\ blk = SysInfoBlock_New
    /\ sin = <<>>
    /\ sout = <<>>
    /\ sres = NoBlockCall

FlagsInit ==
    /\ \E cls \in Lattice \cup {"Derived"} :
       \E rep \in (IF cls = "Derived" THEN 0..(Pow2(FlagBits) - 1) ELSE {0}) :
           heap = [EmptyHeap EXCEPT ![1] = NewObject(cls, rep)]
    /\ fptr \in {NULL, 1}
    /\ fres = NoAnswer
    /\ borrowed = {}
    /\ handed = {}
    /\ last = NoCall
    /\ lres = NoLookup
    /\ wres = NoWalk
    /\ EepromStart
    /\ LoopStart
    /\ BlockStart
    /\ DisplayStart
    /\ NetStart

\* A caller asks every predicate about the object fptr points at.
Classify ==
    /\ fres = NoAnswer
    /\ fres' = [asked |-> TRUE,
                flags |-> IF fptr = NULL THEN 0 ELSE objectFlags(heap[fptr]),
                isContainer |-> isContainer(heap, fptr),
                isOpenContainer |-> isOpenContainer(heap, fptr),
                isValue |-> isValue(heap, fptr),
                isLoggedValue |-> isLoggedValue(heap, fptr),
                isDynamicallyAllocated |-> isDynamicallyAllocated(heap, fptr),
                isWritable |-> isWritable(heap, fptr)]
    /\ UNCHANGED <<netVars, dispVars, blockVars, loopVars, eepromVars, heap, fptr, treeVars, callVars>>

\* The caller drops the answers and may ask again.
Forget ==
    /\ fres # NoAnswer
    /\ fres' = NoAnswer
    /\ UNCHANGED <<netVars, dispVars, blockVars, loopVars, eepromVars, heap, fptr, treeVars, callVars>>

FlagsNext == Classify \/ Forget

SpecFlags == FlagsInit /\ [][FlagsNext]_vars

\* ------------------------------------------------------ claims C1, C2
\* Bit k of an 8-bit flags value, read arithmetically.
BitSet(f, k) == (f \div Pow2(k)) % 2 = 1

\* C1: for every object of the lattice and every 8-bit flags value an object may
\* report, isContainer is true iff the Container bit (8) is set, isOpenContainer
\* iff both the Container bit (8) and the OpenContainer bit (1) are set,
\* isLoggedValue iff the Value bit (4) is set and the NotLogged bit (16) is
\* clear; and every predicate is false for a null object.
C1_FlagPredicates ==
    fres.asked =>
        IF fptr = NULL
        THEN /\ ~fres.isContainer
             /\ ~fres.isOpenContainer
             /\ ~fres.isValue
             /\ ~fres.isLoggedValue
             /\ ~fres.isDynamicallyAllocated
             /\ ~fres.isWritable
        ELSE /\ fres.isContainer <=> BitSet(fres.flags, 3)
             /\ fres.isOpenContainer <=> (BitSet(fres.flags, 3) /\ BitSet(fres.flags, 0))
             /\ fres.isLoggedValue <=> (BitSet(fres.flags, 2) /\ ~BitSet(fres.flags, 4))

\* C1 witness: the predicates were asked about a container that reports the
\* Container bit without the OpenContainer bit, together with the NotLogged bit.
C1_Witness ==
    /\ fres.asked
    /\ fptr # NULL
    /\ fres.flags = 28
    /\ fres.isContainer
    /\ ~fres.isOpenContainer
    /\ ~fres.isLoggedValue

\* The capability bits a class of the lattice adds to its base's flags.
OwnBits(cls) ==
    CASE cls = "Container" -> 8
      [] cls = "OpenContainer" -> 1
      [] cls = "Value" -> 4
      [] cls = "WritableValue" -> 1
      [] OTHER -> 0

\* The flags value each class of the lattice is expected to report.
ExpectedFlags(cls) ==
    CASE cls = "Object" -> 0
      [] cls = "Container" -> 8
      [] cls = "FactoryContainer" -> 8
      [] cls = "OpenContainer" -> 9
      [] cls = "Value" -> 4
      [] cls = "WritableValue" -> 5
      [] cls = "EepromAwareValue" -> 4
      [] cls = "EepromAwareWritableValue" -> 5

\* C2: every class of the lattice reports objectFlags() equal to the bitwise OR
\* of its base class's objectFlags() and its own capability bits, hence a
\* superset of its base's flags: Container = 8, OpenContainer = 9, Value = 4,
\* WritableValue = 5, and FactoryContainer and the EepromAware variants report
\* exactly their base's flags.
C2_FlagsComposeFromBase ==
    (fres.asked /\ fptr # NULL /\ heap[fptr].cls \in Lattice) =>
        LET cls == heap[fptr].cls
            base == IF cls = "Object" THEN 0 ELSE ExpectedFlags(BaseOf(cls))
        IN /\ fres.flags = ExpectedFlags(cls)
           /\ fres.flags = BitOr(base, OwnBits(cls))
           /\ \A k \in 0..(FlagBits - 1) : BitSet(base, k) => BitSet(fres.flags, k)

\* C2 witness: objectFlags() was asked of an EepromAwareWritableValue, the class
\* furthest from Object in the lattice.
C2_Witness ==
    /\ fres.asked
    /\ fptr # NULL
    /\ heap[fptr].cls = "EepromAwareWritableValue"

\* ============================================================ containers
\* An application container that keeps its items in a fixed number of slots
\* (cls is "Container" or "OpenContainer").
NewSlotContainer(cls, items) ==
    [cls |-> cls, rep |-> 0, impl |-> "slots", slots |-> items, makes |-> "none", frees |-> 0]

\* An application FactoryContainer that builds an object of class makes for each
\* of its n ids, on demand.
NewItemFactory(n, makes) ==
    [cls |-> "FactoryContainer", rep |-> 0, impl |-> "factory",
     slots |-> [i \in 1..n |-> NULL], makes |-> makes, frees |-> 0]

\* What is left of an object after delete_object; frees counts the deletes.
Deleted(obj) ==
    [cls |-> "deleted", rep |-> 0, impl |-> "base", slots |-> <<>>, makes |-> "none",
     frees |-> obj.frees + 1]

\* p points at an object that was constructed and not deleted.
Live(h, p) == p # NULL /\ h[p].cls \notin {"free", "deleted"}

\* new_object(x): the cell the next object is constructed in (NULL when the
\* store is used up).  A cell is never used for a second object, so a cell
\* identifies an instance.
FreshCell(h) ==
    IF \E c \in DOMAIN h : h[c].cls = "free"
    THEN CHOOSE c \in DOMAIN h : h[c].cls = "free" /\ \A d \in DOMAIN h : h[d].cls = "free" => c <= d
    ELSE NULL

\* The objects a container's destructor tears down with it: the container and
\* all it owns.
RECURSIVE Owned(_, _)
Owned(h, p) ==
    IF ~Live(h, p) THEN {}
    ELSE {p} \cup UNION {Owned(h, h[p].slots[i]) : i \in DOMAIN h[p].slots}

\* delete_object(x): delete (x).  Deleting a null pointer does nothing; the
\* destructor of a slot container destroys the objects installed in it.
delete_object(h, p) ==
    IF p = NULL THEN h
    ELSE LET gone == IF Live(h, p) THEN Owned(h, p) ELSE {p}
         IN [c \in DOMAIN h |-> IF c \in gone THEN Deleted(h[c]) ELSE h[c]]

\* ---- Container, as declared in Values.h
Container_item_First(h, c, id) == [h |-> h, res |-> IF id = 0 THEN c ELSE NULL]
Container_item(h, c, id) == [h |-> h, res |-> NULL]

Container_returnItem_Delete(h, c, id, it) == delete_object(h, it)
Container_returnItem(h, c, id, it) == h

Container_size(h, c) == 0

\* ---- FactoryContainer, as declared in Values.h
FactoryContainer_returnItem_Keep(h, c, id, it) == h
FactoryContainer_returnItem(h, c, id, it) == delete_object(h, it)

\* ---- OpenContainer, as declared in Values.h
OpenContainer_add_ClaimsSuccess(h, c, index, it) == [h |-> h, ok |-> TRUE]
OpenContainer_add(h, c, index, it) == [h |-> h, ok |-> FALSE]

OpenContainer_next_First(h, c) == 0
OpenContainer_next(h, c) == -1

OpenContainer_remove(h, c, id) == h

\* ---- application containers (Values.h declares only their interface)
SlotContainer_size(h, c) == Len(h[c].slots)

SlotContainer_item(h, c, id) ==
    [h |-> h,
     res |-> IF 0 <= id /\ id < SlotContainer_size(h, c) THEN h[c].slots[id + 1] ELSE NULL]

\* Installs it at index when index is a slot of the container and is free.
SlotContainer_add(h, c, index, it) ==
    IF 0 <= index /\ index < SlotContainer_size(h, c) /\ h[c].slots[index + 1] = NULL
    THEN [h |-> [h EXCEPT ![c].slots[index + 1] = it], ok |-> TRUE]
    ELSE [h |-> h, ok |-> FALSE]

SlotContainer_next(h, c) ==
    LET free == {i \in 0..(SlotContainer_size(h, c) - 1) : h[c].slots[i + 1] = NULL}
    IN IF free = {} THEN -1 ELSE CHOOSE i \in free : \A j \in free : i <= j

\* Tears down the object in slot id and vacates the slot.
SlotContainer_remove(h, c, id) ==
    IF 0 <= id /\ id < SlotContainer_size(h, c) /\ h[c].slots[id + 1] # NULL
    THEN [delete_object(h, h[c].slots[id + 1]) EXCEPT ![c].slots[id + 1] = NULL]
    ELSE h

ItemFactory_size(h, c) == Len(h[c].slots)

\* Constructs a fresh object for a valid id.
ItemFactory_item(h, c, id) ==
    IF 0 <= id /\ id < ItemFactory_size(h, c) /\ FreshCell(h) # NULL
    THEN [h |-> [h EXCEPT ![FreshCell(h)] = NewObject(h[c].makes, 0)], res |-> FreshCell(h)]
    ELSE [h |-> h, res |-> NULL]

\* ---- virtual dispatch on the object c points at
size(h, c) ==
    CASE h[c].impl = "slots" -> SlotContainer_size(h, c)
      [] h[c].impl = "factory" -> ItemFactory_size(h, c)
      [] OTHER -> Container_size(h, c)

item(h, c, id) ==
    CASE h[c].impl = "slots" -> SlotContainer_item(h, c, id)
      [] h[c].impl = "factory" -> ItemFactory_item(h, c, id)
      [] OTHER -> Container_item(h, c, id)

returnItem(h, c, id, it) ==
    IF h[c].cls = "FactoryContainer"
    THEN FactoryContainer_returnItem(h, c, id, it)
    ELSE Container_returnItem(h, c, id, it)

add(h, c, index, it) ==
    IF h[c].impl = "slots" THEN SlotContainer_add(h, c, index, it)
    ELSE OpenContainer_add(h, c, index, it)

next(h, c) ==
    IF h[c].impl = "slots" THEN SlotContainer_next(h, c) ELSE OpenContainer_next(h, c)

remove(h, c, id) ==
    IF h[c].impl = "slots" THEN SlotContainer_remove(h, c, id) ELSE OpenContainer_remove(h, c, id)

\* ============================================================ tree section
\* The root container is the first object constructed.
Root == 1

\* The container ids callers pass: below the range, in it, and beyond it.
IdInputs == {INVALID_ID, 0, SlotCount - 1, SlotCount, MAX_CONTAINER_ID}

\* The slots callers name in add() and remove(): every slot, and the first
\* index that is no slot (add() takes an index >= 0).
IndexInputs == 0..SlotCount

\* The objects a caller constructs to install them with add().
AddKinds == {"Value", "Container", "OpenContainer", "OpenSlots", "Factory"}

Construct(kind) ==
    CASE kind = "OpenSlots" -> NewSlotContainer("OpenContainer", [i \in 1..SlotCount |-> NULL])
      [] kind = "Factory" -> NewItemFactory(2, "Value")
      [] OTHER -> NewObject(kind, 0)

\* How many levels below itself an object of this kind has slots: a factory and
\* a slot container have one level of ids, the classes of Values.h have size 0.
ReachBelow(kind) == IF kind \in {"Factory", "OpenSlots"} THEN 1 ELSE 0

\* The container whose slot holds c (NULL for the root and for objects in no slot).
Parent(h, c) ==
    IF \E p \in DOMAIN h : Live(h, p) /\ \E i \in DOMAIN h[p].slots : h[p].slots[i] = c
    THEN CHOOSE p \in DOMAIN h : Live(h, p) /\ \E i \in DOMAIN h[p].slots : h[p].slots[i] = c
    ELSE NULL

\* Length of the id chain that addresses c from the root.
RECURSIVE ChainLength(_, _)
ChainLength(h, c) ==
    IF c = Root \/ Parent(h, c) = NULL THEN 0 ELSE 1 + ChainLength(h, Parent(h, c))

\* What a caller can see of container c without keeping anything: size(), and
\* for every id below it whether item() yields an object and of which class.
\* (The look is taken with one spare cell, so that it does not depend on how
\* much of the store is used.)
Observable(h, c) ==
    LET spare == h @@ ((MaxObjs + 1) :> FreeCell)
        kind(j) == LET r == item(spare, c, j)
                   IN IF r.res = NULL THEN "null" ELSE r.h[r.res].cls
    IN <<size(h, c)>> \o [j \in 1..size(h, c) |-> kind(j - 1)]

\* A system root: a closed container with a value, an open user container and a
\* factory container installed at construction.
SystemRootHeap ==
    [c \in Cells |->
        CASE c = 1 -> NewSlotContainer("Container", <<2, 3, 4>>)
          [] c = 2 -> NewObject("Value", 0)
          [] c = 3 -> NewSlotContainer("OpenContainer", [i \in 1..SlotCount |-> NULL])
          [] c = 4 -> NewItemFactory(2, "Value")
          [] OTHER -> FreeCell]

TreeInit ==
    /\ heap = SystemRootHeap
    /\ fptr = NULL
    /\ fres = NoAnswer
    /\ borrowed = {}
    /\ handed = {}
    /\ last = NoCall
    /\ lres = NoLookup
    /\ wres = NoWalk
    /\ EepromStart
    /\ LoopStart
    /\ BlockStart
    /\ DisplayStart
    /\ NetStart

\* c->item(id)
Item(c, id) ==
    /\ Live(heap, c)
    /\ isContainer(heap, c)
    /\ Cardinality(borrowed) < MaxBorrow
    /\ heap[c].impl = "factory" => FreshCell(heap) # NULL
    /\ heap[c].impl # "factory" => ~\E b \in borrowed : b.c = c /\ b.id = id
    /\ LET r == item(heap, c, id)
       IN /\ heap' = r.h
          /\ borrowed' = IF r.res = NULL THEN borrowed
                         ELSE borrowed \cup {[c |-> c, id |-> id, item |-> r.res]}
          /\ handed' = IF r.res # NULL /\ heap[c].cls = "FactoryContainer"
                       THEN handed \cup {r.res} ELSE handed
          /\ last' = [op |-> "item", c |-> c, id |-> id, res |-> r.res, ok |-> r.res # NULL,
                      paired |-> FALSE,
                      fresh |-> r.res # NULL /\ heap[r.res].cls = "free" /\ r.res \notin handed,
                      obs |-> Observable(heap, c)]
    /\ UNCHANGED <<netVars, dispVars, blockVars, loopVars, eepromVars, flagVars, callVars>>

\* What a caller may hand to returnItem(): an item it holds, or the null result
\* of the item() call it has just made.
Returnable ==
    borrowed \cup (IF last.op = "item" /\ last.res = NULL
                   THEN {[c |-> last.c, id |-> last.id, item |-> NULL]} ELSE {})

\* c->returnItem(id, item)
ReturnItem(b) ==
    /\ Live(heap, b.c)
    /\ heap' = returnItem(heap, b.c, b.id, b.item)
    /\ borrowed' = borrowed \ {b}
    /\ LET paired == last.op = "item" /\ last.c = b.c /\ last.id = b.id /\ last.res = b.item
       IN last' = [op |-> "returnItem", c |-> b.c, id |-> b.id, res |-> b.item, ok |-> TRUE,
                   paired |-> paired, fresh |-> FALSE,
                   obs |-> IF paired THEN last.obs ELSE <<>>]
    /\ UNCHANGED <<netVars, dispVars, blockVars, loopVars, eepromVars, flagVars, handed, callVars>>

\* A caller constructs an object and calls c->add(index, object); an object the
\* container refuses is destroyed by the caller.  Objects are installed only
\* where an id chain of at most MAX_CONTAINER_DEPTH ids addresses them and
\* their items.
Add(c, index, kind) ==
    /\ lres.op = "none" /\ wres.op = "none"
    /\ Live(heap, c)
    /\ isOpenContainer(heap, c)
    /\ ChainLength(heap, c) + ReachBelow(kind) < MAX_CONTAINER_DEPTH
    /\ FreshCell(heap) # NULL
    /\ LET n == FreshCell(heap)
           r == add([heap EXCEPT ![n] = Construct(kind)], c, index, n)
       IN /\ heap' = IF r.ok THEN r.h ELSE delete_object(r.h, n)
          /\ last' = [op |-> "add", c |-> c, id |-> index, res |-> n, ok |-> r.ok,
                      paired |-> FALSE, fresh |-> FALSE, obs |-> <<>>]
    /\ UNCHANGED <<netVars, dispVars, blockVars, loopVars, eepromVars, flagVars, borrowed, handed, callVars>>

\* c->remove(id); nothing of what the slot owns is on loan to a caller.  When
\* the call follows a next() on the same container, obs keeps its answer.
Remove(c, id) ==
    /\ lres.op = "none" /\ wres.op = "none"
    /\ Live(heap, c)
    /\ isOpenContainer(heap, c)
    /\ LET r == item(heap, c, id)
       IN \A b \in borrowed : b.item \notin Owned(heap, r.res) /\ b.c \notin Owned(heap, r.res)
    /\ heap' = remove(heap, c, id)
    /\ last' = [op |-> "remove", c |-> c, id |-> id, res |-> NULL, ok |-> TRUE,
                paired |-> FALSE, fresh |-> FALSE,
                obs |-> IF last.op = "next" /\ last.c = c THEN <<last.id>> ELSE <<>>]
    /\ UNCHANGED <<netVars, dispVars, blockVars, loopVars, eepromVars, flagVars, borrowed, handed, callVars>>

TreeNext ==
    \/ \E c \in Cells, id \in IdInputs : Item(c, id)
    \/ \E b \in Returnable : ReturnItem(b)
    \/ \E c \in Cells, index \in IndexInputs, kind \in AddKinds : Add(c, index, kind)
    \/ \E c \in Cells, id \in IndexInputs : Remove(c, id)

SpecTree == TreeInit /\ [][TreeNext]_vars

\* ------------------------------------------------------ claims C3, C4, C5
\* C3: for every container and every id with id < 0 or id >= size(), item(id)
\* returns null, in every state reached by add, remove, item and returnItem calls.
C3_ItemOutOfRangeIsNull ==
    (last.op = "item" /\ (last.id < 0 \/ last.id >= size(heap, last.c))) => last.res = NULL

\* C3 witness: item() was called with an id at or beyond size() on a container
\* that holds an object, and with a negative id.
C3_Witness ==
    /\ last.op = "item"
    /\ last.id >= size(heap, last.c)
    /\ size(heap, last.c) > 0
    /\ \E i \in DOMAIN heap[last.c].slots : heap[last.c].slots[i] # NULL

\* C4: for every container (plain, open or factory) and every valid id,
\* item(id) followed immediately by returnItem(id, result) leaves size() and the
\* null/non-null result and class of item(j), for every j, as they were before
\* the two calls.
C4_BorrowReturnKeepsObservableState ==
    (last.op = "returnItem" /\ last.paired /\ 0 <= last.id /\ last.id < size(heap, last.c))
        => Observable(heap, last.c) = last.obs

\* C4 witness: an object borrowed from an open container that holds it was
\* given back by the next call.
C4_Witness ==
    /\ last.op = "returnItem"
    /\ last.paired
    /\ last.res # NULL
    /\ heap[last.c].cls = "OpenContainer"

\* C5: FactoryContainer.returnItem(id, item) destroys the passed item; every
\* item() of a factory container yields an instance that was never handed out
\* before, so no two calls return the same instance; an instance handed out is
\* live exactly while it is borrowed, and once returned it is destroyed exactly
\* once and never handed out again.
C5_FactoryItemsFreshAndDestroyedOnReturn ==
    /\ (last.op = "returnItem" /\ heap[last.c].cls = "FactoryContainer" /\ last.res # NULL)
            => heap[last.res].cls = "deleted"
    /\ (last.op = "item" /\ heap[last.c].cls = "FactoryContainer" /\ last.res # NULL)
            => (last.fresh /\ Live(heap, last.res))
    /\ \A p \in handed :
            IF \E b \in borrowed : b.item = p
            THEN Live(heap, p) /\ Cardinality({b \in borrowed : b.item = p}) = 1
            ELSE heap[p].cls = "deleted" /\ heap[p].frees = 1

\* C5 witness: a factory container handed out two instances for the same id, one
\* of them has been returned and the other is still borrowed.
C5_Witness ==
    \E p, q \in handed :
        /\ p # q
        /\ heap[p].cls = "deleted"
        /\ \E b \in borrowed : b.item = q /\ b.id = 0 /\ heap[b.c].cls = "FactoryContainer"
        /\ last.op = "returnItem" /\ last.res = p /\ last.id = 0

\* ============================================================ id-chain resolution
\* The ids a chain holds: the slots of the example tree and an id beyond every
\* container's size.
ChainIds == {0, 1, 2, 9}

RECURSIVE SeqsOver(_, _)
SeqsOver(S, n) ==
    IF n = 0 THEN {<<>>}
    ELSE LET shorter == SeqsOver(S, n - 1)
         IN shorter \cup {Append(q, x) : q \in {t \in shorter : Len(t) = n - 1}, x \in S}

\* The id chains a stream delivers: every chain of up to MAX_CONTAINER_DEPTH ids,
\* and chains that go on with further ids.
ChainInputs ==
    LET full == SeqsOver(ChainIds, MAX_CONTAINER_DEPTH)
    IN full \cup {q \o [i \in 1..n |-> 0] :
                    q \in {t \in full : Len(t) = MAX_CONTAINER_DEPTH}, n \in 1..ExtraIds}

\* Fetches the object at a given index in a container.
fetchContainedObject(h, o, id) ==
    IF isContainer(h, o) THEN item(h, o, id) ELSE [h |-> h, res |-> NULL]

ItemEvent(c, id, it) == [ev |-> "item", c |-> c, id |-> id, it |-> it]
ReturnEvent(c, id, it) == [ev |-> "returnItem", c |-> c, id |-> id, it |-> it]

\* Gives current back to the container it was borrowed from (the root was
\* borrowed from nobody).
GiveBack(h, log, via, current) ==
    IF via = <<>> \/ current = NULL THEN [h |-> h, log |-> log]
    ELSE [h |-> returnItem(h, via[1], via[2], current),
          log |-> Append(log, ReturnEvent(via[1], via[2], current))]

\* One level of the resolution: current was reached with the ids before pos and
\* was borrowed from via.  While ids remain: fail beyond MAX_CONTAINER_DEPTH,
\* fail on a non-container, fetch the next object and give current back.
RECURSIVE ResolveFrom(_, _, _, _, _, _)
ResolveFrom(h, current, via, data, pos, log) ==
    IF pos > Len(data)
    THEN [h |-> h, res |-> current, log |-> log, consumed |-> pos - 1, via |-> via]
    ELSE IF pos > MAX_CONTAINER_DEPTH \/ ~isContainer(h, current)
    THEN LET g == GiveBack(h, log, via, current)
         IN [h |-> g.h, res |-> NULL, log |-> g.log, consumed |-> pos - 1, via |-> <<>>]
    ELSE LET id == data[pos]
             r == fetchContainedObject(h, current, id)
             g == GiveBack(r.h, Append(log, ItemEvent(current, id, r.res)), via, current)
         IN IF r.res = NULL
            THEN [h |-> g.h, res |-> NULL, log |-> g.log, consumed |-> pos, via |-> <<>>]
            ELSE ResolveFrom(g.h, r.res, <<current, id>>, data, pos + 1, g.log)

\* Object* lookupObject(Object* current, DataIn& data)
lookupObject(h, current, data) == ResolveFrom(h, current, <<>>, data, 1, <<>>)

\* Object* lookupUserObject(Container* root, DataIn& data)
lookupUserObject(h, root, data) == lookupObject(h, root, data)

\* A caller that holds nothing resolves an id chain from the root; the object
\* it gets stays borrowed to it.
Lookup(chain) ==
    /\ lres.op = "none"
    /\ borrowed = {}
    /\ LET r == lookupUserObject(heap, Root, chain)
       IN /\ \A i \in DOMAIN r.log :
                (r.log[i].ev = "item" /\ heap[r.log[i].c].impl = "factory") => FreshCell(heap) # NULL
          /\ heap' = r.h
          /\ borrowed' = IF r.res = NULL \/ r.via = <<>> THEN {}
                         ELSE {[c |-> r.via[1], id |-> r.via[2], item |-> r.res]}
          /\ handed' = handed \cup {c \in Cells : heap[c].cls = "free" /\ r.h[c].cls # "free"}
          /\ lres' = [op |-> "lookup", chain |-> chain, pre |-> heap, res |-> r.res,
                      log |-> r.log, consumed |-> r.consumed]
    /\ UNCHANGED <<netVars, dispVars, blockVars, loopVars, eepromVars, flagVars, last, wres>>

\* The caller is done with the resolved object: it gives it back to the
\* container it came from and drops the result.
LookupRelease ==
    /\ lres.op # "none"
    /\ heap' = IF borrowed = {} THEN heap
               ELSE LET b == CHOOSE x \in borrowed : TRUE
                    IN returnItem(heap, b.c, b.id, b.item)
    /\ borrowed' = {}
    /\ lres' = NoLookup
    /\ UNCHANGED <<netVars, dispVars, blockVars, loopVars, eepromVars, flagVars, handed, last, wres>>

\* What lookupContainer makes of r, the resolution of the ids before the last
\* one: the container r reached and the last id, or, when r failed, reached no
\* container or the last id lies beyond MAX_CONTAINER_DEPTH, a null container
\* and INVALID_ID, what was borrowed being given back.
ContainerAndLastId(r, data) ==
    IF r.res # NULL /\ Len(data) <= MAX_CONTAINER_DEPTH /\ isContainer(r.h, r.res)
    THEN [h |-> r.h, res |-> r.res, lastID |-> data[Len(data)], log |-> r.log,
          consumed |-> Len(data), via |-> r.via]
    ELSE [h |-> GiveBack(r.h, r.log, r.via, r.res).h, res |-> NULL, lastID |-> INVALID_ID,
          log |-> GiveBack(r.h, r.log, r.via, r.res).log, consumed |-> r.consumed,
          via |-> <<>>]

\* Container* lookupContainer(Object* current, DataIn& data, int8_t& lastID):
\* resolves the ids before the last one to the container that holds the final
\* object and hands out the last id.
lookupContainer(h, current, data) ==
    IF data = <<>>
    THEN [h |-> h, res |-> NULL, lastID |-> INVALID_ID, log |-> <<>>, consumed |-> 0,
          via |-> <<>>]
    ELSE CHOOSE out \in
            {ContainerAndLastId(r, data) :
                r \in {ResolveFrom(h, current, <<>>, SubSeq(data, 1, Len(data) - 1), 1, <<>>)}} :
            TRUE

\* A caller that holds nothing resolves an id chain to the container of the
\* final object and the last id; the container stays borrowed to it.
LookupContainer(chain) ==
    /\ lres.op = "none"
    /\ borrowed = {}
    /\ \E r \in {lookupContainer(heap, Root, chain)} :
          /\ \A i \in DOMAIN r.log :
                (r.log[i].ev = "item" /\ heap[r.log[i].c].impl = "factory") => FreshCell(heap) # NULL
          /\ heap' = r.h
          /\ borrowed' = IF r.res = NULL \/ r.via = <<>> THEN {}
                         ELSE {[c |-> r.via[1], id |-> r.via[2], item |-> r.res]}
          /\ handed' = handed \cup {c \in Cells : heap[c].cls = "free" /\ r.h[c].cls # "free"}
          /\ lres' = [op |-> "lookupContainer", chain |-> chain, pre |-> heap, res |-> r.res,
                      log |-> r.log, consumed |-> r.consumed, lastID |-> r.lastID]
    /\ UNCHANGED <<netVars, dispVars, blockVars, loopVars, eepromVars, flagVars, last, wres>>

LookupNext ==
    \/ \E c \in Cells, index \in IndexInputs, kind \in AddKinds : Add(c, index, kind)
    \/ \E c \in Cells, id \in IndexInputs : Remove(c, id)
    \/ \E chain \in ChainInputs : Lookup(chain)
    \/ LookupRelease

SpecLookup == TreeInit /\ [][LookupNext]_vars

\* Both forms of the resolution, on a tree that grows.
ResolveNext ==
    \/ \E c \in Cells, index \in IndexInputs, kind \in AddKinds : Add(c, index, kind)
    \/ \E chain \in ChainInputs : Lookup(chain)
    \/ \E chain \in ChainInputs : LookupContainer(chain)
    \/ LookupRelease

SpecResolve == TreeInit /\ [][ResolveNext]_vars

\* ------------------------------------------------------ claims C6, C7
\* The classes of the lattice that are containers.
ContainerClasses == {"Container", "FactoryContainer", "OpenContainer"}

\* item() applied to each id of the chain in order, as long as the object at
\* hand is a container and the id is one of its ids; null otherwise.
RECURSIVE ChainReach(_, _, _)
ChainReach(h, cur, chain) ==
    IF chain = <<>> THEN [h |-> h, res |-> cur]
    ELSE IF cur = NULL THEN [h |-> h, res |-> NULL]
    ELSE IF h[cur].cls \notin ContainerClasses THEN [h |-> h, res |-> NULL]
    ELSE IF Head(chain) < 0 \/ Head(chain) >= size(h, cur) THEN [h |-> h, res |-> NULL]
    ELSE LET r == item(h, cur, Head(chain)) IN ChainReach(r.h, r.res, Tail(chain))

ChainItem(h, cur, chain) == ChainReach(h, cur, chain).res

\* The tree of the example: an OpenContainer at root slot 1 that holds a value
\* at its slot 2.
ExampleTree(h) ==
    /\ size(h, Root) = 3
    /\ h[Root].slots[2] # NULL
    /\ h[h[Root].slots[2]].cls = "OpenContainer"
    /\ h[h[Root].slots[2]].impl = "slots"
    /\ h[h[Root].slots[2]].slots[3] # NULL
    /\ h[h[h[Root].slots[2]].slots[3]].cls = "Value"

\* C6: lookupUserObject from the root returns the object reached by applying
\* item() to each id of the chain in order when every id is in range and every
\* object before the last is a container, and null otherwise.  With an
\* OpenContainer at root slot 1 holding a value at its slot 2, chain [1,2]
\* resolves to that value and [1,2,0] to null; [9] on a root of size 3 resolves
\* to null.
C6_LookupFollowsChain ==
    lres.op = "lookup" =>
        /\ lres.res = ChainItem(lres.pre, Root, lres.chain)
        /\ lres.res # NULL => Live(heap, lres.res)
        /\ (ExampleTree(lres.pre) /\ lres.chain = <<1, 2>>)
                => lres.res = lres.pre[lres.pre[Root].slots[2]].slots[3]
        /\ (ExampleTree(lres.pre) /\ lres.chain = <<1, 2, 0>>) => lres.res = NULL
        /\ (size(lres.pre, Root) = 3 /\ lres.chain = <<9>>) => lres.res = NULL

\* C6 witness: chain [1,2] was resolved on the example tree and gave an object.
C6_Witness ==
    /\ lres.op = "lookup"
    /\ lres.chain = <<1, 2>>
    /\ ExampleTree(lres.pre)
    /\ lres.res # NULL

\* The calls of one kind a resolution made for the triple (container, id, item).
CallsFor(log, ev, e) ==
    {i \in DOMAIN log : log[i].ev = ev /\ log[i].c = e.c /\ log[i].id = e.id /\ log[i].it = e.it}

\* The item() calls of a resolution that gave an object and have no
\* returnItem() after them.
Unreturned(log) ==
    {i \in DOMAIN log :
        /\ log[i].ev = "item"
        /\ log[i].it # NULL
        /\ ~\E j \in CallsFor(log, "returnItem", log[i]) : j > i}

\* C7: when a resolution returns, with an object or with null, every object it
\* obtained through item() other than the one it returns has been handed back
\* by exactly one returnItem(id, item) on the container it came from; no
\* returnItem() is made for anything else; the returned object, if any, is the
\* only one still borrowed, and no object made during the call outlives it
\* except the returned one.
C7_LookupReturnsIntermediates ==
    lres.op = "lookup" =>
        /\ \A i \in DOMAIN lres.log :
              lres.log[i].ev = "returnItem" =>
                  /\ \E j \in CallsFor(lres.log, "item", lres.log[i]) : j < i
                  /\ Cardinality(CallsFor(lres.log, "returnItem", lres.log[i])) = 1
        /\ \A i \in Unreturned(lres.log) :
              /\ lres.log[i].it = lres.res
              /\ \A j \in DOMAIN lres.log : j > i => lres.log[j].ev = "returnItem"
        /\ Cardinality(Unreturned(lres.log)) <= 1
        /\ lres.res = NULL => Unreturned(lres.log) = {}
        /\ \A b \in borrowed : b.item = lres.res
        /\ \A p \in Cells :
              (lres.pre[p].cls = "free" /\ Live(heap, p)) => p = lres.res

\* C7 witness: a resolution obtained a factory container from the root and an
\* object from the factory container, and failed because ids remained: both were
\* handed back.
C7_Witness ==
    /\ lres.op = "lookup"
    /\ lres.res = NULL
    /\ Len(lres.chain) = 3
    /\ Len(lres.log) = 4
    /\ \E i \in DOMAIN lres.log :
          /\ lres.log[i].ev = "returnItem"
          /\ lres.log[i].c = Root
    /\ \E i \in DOMAIN lres.log :
          /\ lres.log[i].ev = "returnItem"
          /\ lres.pre[lres.log[i].c].cls = "FactoryContainer"

\* ============================================================ tree walker
\* The objects a walk borrows from factory containers are constructed in
\* storage of their own, beyond the cells of the tree, and are gone when the
\* walk returns.
WalkStore(h) ==
    [c \in 1..(2 * MaxObjs) |->
        IF c \in Cells
        THEN (IF h[c].cls = "free" THEN [FreeCell EXCEPT !.cls = "reserved"] ELSE h[c])
        ELSE FreeCell]

\* The id buffer the caller supplies, container_id[MAX_CONTAINER_DEPTH], before
\* the walker writes to it.
IdBuffer == [i \in 1..MAX_CONTAINER_DEPTH |-> INVALID_ID]

\* The state a walk threads through its calls: the store, the callback's
\* invocations so far, the id buffer, the value the last call returned and
\* whether the callback has signalled stop.
WalkStart(h) == [h |-> WalkStore(h), log |-> <<>>, buf |-> IdBuffer, ret |-> FALSE,
                 signalled |-> FALSE]

\* EnumObjectsFn callback(obj, data, id, end, enter): a callback that records its
\* invocation and returns true (stop) at invocation number stopAt.  The ids in
\* [id, end) are the first end entries of the buffer.
callback(w, obj, end, enter, stopAt) ==
    LET call == [obj |-> obj,
                 cls |-> IF obj = NULL THEN "null" ELSE w.h[obj].cls,
                 chain |-> SubSeq(w.buf, 1, end),
                 enter |-> enter]
        stop == Len(w.log) + 1 = stopAt
    IN [w EXCEPT !.log = Append(w.log, call), !.ret = stop,
                 !.signalled = w.signalled \/ stop]

RECURSIVE walkObject(_, _, _, _)
RECURSIVE WalkSlots(_, _, _, _, _)

\* bool walkContainer(Container* c, callback, data, id, end): every slot of c in
\* increasing id order; *end holds the slot's id while its object is walked.
walkContainer(w, c, end, stopAt) == WalkSlots(w, c, 0, end, stopAt)

\* The loop of walkContainer from slot i on: borrow the item, walk it, give it
\* back; a true from below ends the loop with true.
WalkSlots(w, c, i, end, stopAt) ==
    IF i >= size(w.h, c) THEN [w EXCEPT !.ret = FALSE]
    ELSE LET r == item(w.h, c, i)
             w1 == walkObject([w EXCEPT !.h = r.h, !.buf[end + 1] = i], r.res, end + 1, stopAt)
             w2 == [w1 EXCEPT !.h = returnItem(w1.h, c, i, r.res)]
         IN IF w1.ret THEN w2 ELSE WalkSlots(w2, c, i + 1, end, stopAt)

\* bool walkObject(Object* obj, callback, data, id, end): the callback on enter,
\* the items of obj when it is a container, the callback on exit; a true from
\* the callback or from below is returned at once.
walkObject(w, obj, end, stopAt) ==
    LET w1 == callback(w, obj, end, TRUE, stopAt)
    IN IF w1.ret THEN w1
       ELSE LET w2 == IF isContainer(w1.h, obj) THEN walkContainer(w1, obj, end, stopAt) ELSE w1
            IN IF w2.ret THEN w2 ELSE callback(w2, obj, end, FALSE, stopAt)

\* inline bool walkRoot(Container* root, callback, data, id)
walkRoot_EndPastId(w, root, stopAt) == walkContainer(w, root, 1, stopAt)
walkRoot_DropResult(w, root, stopAt) == [walkContainer(w, root, 0, stopAt) EXCEPT !.ret = FALSE]
walkRoot(w, root, stopAt) == walkContainer(w, root, 0, stopAt)

\* A caller that holds nothing walks the tree with a callback that stops at
\* invocation stopAt (0: never).
Walk(stopAt) ==
    /\ lres.op = "none" /\ wres.op = "none"
    /\ borrowed = {}
    /\ LET w == walkRoot(WalkStart(heap), Root, stopAt)
       IN wres' = [op |-> "walk", stopAt |-> stopAt, log |-> w.log, ret |-> w.ret,
                   signalled |-> w.signalled]
    /\ UNCHANGED <<netVars, dispVars, blockVars, loopVars, eepromVars, heap, flagVars, treeVars, lres>>

\* The caller drops the result of the walk.
WalkDone ==
    /\ wres.op = "walk"
    /\ wres' = NoWalk
    /\ UNCHANGED <<netVars, dispVars, blockVars, loopVars, eepromVars, heap, flagVars, treeVars, lres>>

WalkNext ==
    \/ \E c \in Cells, index \in IndexInputs, kind \in AddKinds : Add(c, index, kind)
    \/ \E c \in Cells, id \in IndexInputs : Remove(c, id)
    \/ \E stopAt \in 0..MaxStop : Walk(stopAt)
    \/ WalkDone

SpecWalk == TreeInit /\ [][WalkNext]_vars

\* ------------------------------------------------------ claims C8, C9
\* The id chains of all slots of the tree below container c, c being reached by
\* prefix.
RECURSIVE SlotChainsOf(_, _, _)
SlotChainsOf(h, c, prefix) ==
    UNION {{Append(prefix, i)} \cup
           (LET o == h[c].slots[i + 1]
            IN IF o # NULL /\ h[o].cls \in ContainerClasses
               THEN SlotChainsOf(h, o, Append(prefix, i)) ELSE {})
           : i \in 0..(size(h, c) - 1)}

\* The class of the object the chain leads to ("null" for an empty slot).
ClassAt(h, chain) ==
    LET r == ChainReach(WalkStore(h), Root, chain)
    IN IF r.res = NULL THEN "null" ELSE r.h[r.res].cls

\* The chains of the slots that hold an object, the items of factory containers
\* included.
InstalledChains(h) == {q \in SlotChainsOf(h, Root, <<>>) : ClassAt(h, q) # "null"}

\* The chain the object at chain q was borrowed with is q without its last id.
IsBelow(q, r) == Len(r) > Len(q) /\ SubSeq(r, 1, Len(q)) = q

IsLaterSibling(q, r) ==
    /\ Len(r) = Len(q)
    /\ SubSeq(r, 1, Len(r) - 1) = SubSeq(q, 1, Len(q) - 1)
    /\ r[Len(r)] > q[Len(q)]

\* The invocations of the callback for chain q with the given enter flag.
CallsAt(log, q, enter) == {i \in DOMAIN log : log[i].chain = q /\ log[i].enter = enter}

\* C8: walkRoot over a container tree of depth at most MAX_CONTAINER_DEPTH with a
\* callback that never signals stop invokes the callback for every installed
\* object exactly once with enter=true and exactly once with enter=false, the
\* enter call before the calls for all its descendants and the exit call after
\* them, the objects of one container in increasing id order; at each call the
\* id range [id, end) is the chain of slot ids from the root to the object.
C8_WalkVisitsEveryObjectOnce ==
    (wres.op = "walk" /\ wres.stopAt = 0) =>
        LET log == wres.log
            inst == InstalledChains(heap)
            at(q, enter) == CHOOSE i \in CallsAt(log, q, enter) : TRUE
        IN /\ \A q \in inst :
                /\ Cardinality(CallsAt(log, q, TRUE)) = 1
                /\ Cardinality(CallsAt(log, q, FALSE)) = 1
           /\ \A q \in inst :
                /\ at(q, TRUE) < at(q, FALSE)
                /\ log[at(q, TRUE)].cls = ClassAt(heap, q)
                /\ log[at(q, FALSE)].cls = ClassAt(heap, q)
                /\ log[at(q, TRUE)].obj = log[at(q, FALSE)].obj
                /\ Live(heap, ChainItem(heap, Root, q)) =>
                        log[at(q, TRUE)].obj = ChainItem(heap, Root, q)
                /\ \A r \in inst :
                      /\ IsBelow(q, r) =>
                            (at(q, TRUE) < at(r, TRUE) /\ at(r, FALSE) < at(q, FALSE))
                      /\ IsLaterSibling(q, r) => at(q, FALSE) < at(r, TRUE)
           /\ \A i \in DOMAIN log : log[i].obj # NULL => log[i].chain \in inst

\* C8 witness: a walk that never stopped went over a tree with an object three
\* levels below the root and a factory container.
C8_Witness ==
    /\ wres.op = "walk"
    /\ wres.stopAt = 0
    /\ \E i \in DOMAIN wres.log : Len(wres.log[i].chain) = MAX_CONTAINER_DEPTH /\ wres.log[i].obj # NULL
    /\ \E i \in DOMAIN wres.log : wres.log[i].cls = "FactoryContainer"

\* C9: if the callback returns true at some call, no further callback
\* invocation happens during that walkRoot call and walkRoot returns true; if
\* the callback never returns true, walkRoot returns false.
C9_StopAbortsWholeWalk ==
    wres.op = "walk" =>
        /\ wres.signalled => (wres.ret /\ Len(wres.log) = wres.stopAt)
        /\ ~wres.signalled => ~wres.ret
        /\ wres.stopAt = 0 => ~wres.signalled

\* C9 witness: the callback signalled stop when entering an object two levels
\* below the root that has a later sibling and whose parent has one too.
C9_Witness ==
    /\ wres.op = "walk"
    /\ wres.signalled
    /\ wres.log[Len(wres.log)].enter
    /\ Len(wres.log[Len(wres.log)].chain) = 2
    /\ \E r \in InstalledChains(heap) : IsLaterSibling(wres.log[Len(wres.log)].chain, r)
    /\ \E r \in InstalledChains(heap) :
          IsLaterSibling(SubSeq(wres.log[Len(wres.log)].chain, 1, 1), r)

\* ------------------------------------------- persisted-address objects
\* EepromAccess::readByte(offset), as a set of outcomes: the byte the storage
\* holds at the offset; outside the modelled storage (which the offset below
\* address 0, 65535, and the one below the initial address, 65534, are) any
\* byte.
EepromAccess_readByte(mem, offset) ==
    IF offset \in DOMAIN mem THEN {mem[offset] % Pow2(FlagBits)} ELSE EepromBytes

\* EepromAccess::writeByte(offset, value)
EepromAccess_writeByte(mem, offset, value) == [mem EXCEPT ![offset] = value]

\* EepromAwareValue::rehydrated(_address)
EepromAwareValue_rehydrated(o, a) == [o EXCEPT !.address = Eptr(a)]

\* EepromAwareValue::eeprom_offset()
EepromAwareValue_eeprom_offset(o) == o.address

\* EepromAwareValue::eepromSize(eepromAccess)
EepromAwareValue_eepromSize(o, mem) == EepromAccess_readByte(mem, Eptr(o.address - 1))

\* EepromAwareWritableValue::rehydrated(_address)
EepromAwareWritableValue_rehydrated(o, a) == [o EXCEPT !.address = Eptr(a)]

\* EepromAwareWritableValue::eeprom_offset()
EepromAwareWritableValue_eeprom_offset(o) == o.address

EepromAwareWritableValue_eepromSize_AtAddress(o, mem) == EepromAccess_readByte(mem, Eptr(o.address))

\* EepromAwareWritableValue::eepromSize(eepromAccess)
EepromAwareWritableValue_eepromSize(o, mem) == EepromAccess_readByte(mem, Eptr(o.address - 1))

\* The calls on the object of class cls.
rehydrated(cls, o, a) ==
    IF cls = "EepromAwareValue" THEN EepromAwareValue_rehydrated(o, a)
    ELSE EepromAwareWritableValue_rehydrated(o, a)

eeprom_offset(cls, o) ==
    IF cls = "EepromAwareValue" THEN EepromAwareValue_eeprom_offset(o)
    ELSE EepromAwareWritableValue_eeprom_offset(o)

eepromSize(cls, o, mem) ==
    IF cls = "EepromAwareValue" THEN EepromAwareValue_eepromSize(o, mem)
    ELSE EepromAwareWritableValue_eepromSize(o, mem)

\* The storage layer writes a byte (a length prefix, for one).
WriteByte(offset, value) ==
    /\ eeprom[offset] # value
    /\ eeprom' = EepromAccess_writeByte(eeprom, offset, value)
    /\ eres' = NoEepromCall
    /\ UNCHANGED <<netVars, dispVars, blockVars, loopVars, heap, flagVars, treeVars, callVars, eobj, egiven>>

\* The loader tells the object of class cls where its definition is stored.
Rehydrated(cls, a) ==
    /\ eobj' = [eobj EXCEPT ![cls] = rehydrated(cls, eobj[cls], a)]
    /\ egiven' = [egiven EXCEPT ![cls] = [called |-> TRUE,
                                          first |-> IF egiven[cls].called THEN @.first ELSE a,
                                          a |-> a, since |-> {}]]
    /\ eres' = NoEepromCall
    /\ UNCHANGED <<netVars, dispVars, blockVars, loopVars, heap, flagVars, treeVars, callVars, eeprom>>

\* obj->eeprom_offset()
EepromOffset(cls) ==
    /\ eres' = [op |-> "eeprom_offset", cls |-> cls, res |-> eeprom_offset(cls, eobj[cls])]
    /\ UNCHANGED <<netVars, dispVars, blockVars, loopVars, heap, flagVars, treeVars, callVars, eeprom, eobj, egiven>>

\* obj->eepromSize(eepromAccess)
EepromSize(cls) ==
    /\ \E b \in eepromSize(cls, eobj[cls], eeprom) :
          eres' = [op |-> "eepromSize", cls |-> cls, res |-> b]
    /\ UNCHANGED <<netVars, dispVars, blockVars, loopVars, heap, flagVars, treeVars, callVars, eeprom, eobj, egiven>>

EepromNext ==
    \/ \E offset \in EepromOffsets, value \in EepromBytes : WriteByte(offset, value)
    \/ \E cls \in EepromAwareClasses, a \in EepromAddresses : Rehydrated(cls, a)
    \/ \E cls \in EepromAwareClasses : EepromOffset(cls)
    \/ \E cls \in EepromAwareClasses : EepromSize(cls)

SpecEeprom == TreeInit /\ [][EepromNext]_vars

\* ----------------------------------------------------------- claim C10
\* C10: for both EepromAwareValue and EepromAwareWritableValue, after
\* rehydrated(a), eepromSize() returns the byte the storage holds at offset
\* a - 1 and eeprom_offset() returns a; with byte 5 stored at offset 100 and the
\* address set to 101, eepromSize() returns 5; and the two variants answer the
\* same for the same address and storage content.
C10_EepromSizeReadsPrefixByte ==
    /\ \A cls \in EepromAwareClasses :
          (eres.cls = cls /\ egiven[cls].called) =>
              /\ eres.op = "eeprom_offset" => eres.res = egiven[cls].a
              /\ (eres.op = "eepromSize" /\ (egiven[cls].a - 1) \in EepromOffsets) =>
                    eres.res = eeprom[egiven[cls].a - 1]
              /\ (eres.op = "eepromSize" /\ egiven[cls].a = 101 /\ eeprom[100] = 5) =>
                    eres.res = 5
    /\ (/\ egiven["EepromAwareValue"].called
        /\ egiven["EepromAwareWritableValue"].called
        /\ egiven["EepromAwareValue"].a = egiven["EepromAwareWritableValue"].a) =>
          /\ eeprom_offset("EepromAwareValue", eobj["EepromAwareValue"])
                = eeprom_offset("EepromAwareWritableValue", eobj["EepromAwareWritableValue"])
          /\ eepromSize("EepromAwareValue", eobj["EepromAwareValue"], eeprom)
                = eepromSize("EepromAwareWritableValue", eobj["EepromAwareWritableValue"], eeprom)

\* C10 witness: byte 5 is stored at offset 100, both objects were rehydrated
\* with address 101 and the writable variant answered eepromSize() with 5.
C10_Witness ==
    /\ eeprom[100] = 5
    /\ \A cls \in EepromAwareClasses : egiven[cls].called /\ egiven[cls].a = 101
    /\ eres.op = "eepromSize"
    /\ eres.cls = "EepromAwareWritableValue"
    /\ eres.res = 5

\* --------------------------------------- lifecycle of a persisted object
\* Addresses the loader hands to rehydrated() and bytes a stream write carries.
LoadAddresses == {1, 101}
StreamBytes == {0, 5}

\* Object::prepare(): no delay needed; the object is left as it is.
Object_prepare(o) == [o |-> o, delay |-> 0]

\* Object::update(): does nothing.
Object_update(o) == o

\* Value::readTo(out) of a one-byte value: pushes the value to the stream.
Value_readTo(o) == <<o.val>>

\* WritableValue::writeFrom(dataIn) of a one-byte value: takes the value from
\* the stream.
WritableValue_writeFrom(o, b) == [o EXCEPT !.val = b]

\* The operations applied to the object of class cls since its rehydrated().
Since(cls, op) ==
    [egiven EXCEPT ![cls].since = IF egiven[cls].called THEN @ \cup {op} ELSE @]

\* obj->prepare()
Prepare(cls) ==
    /\ eobj' = [eobj EXCEPT ![cls] = Object_prepare(eobj[cls]).o]
    /\ eres' = [op |-> "prepare", cls |-> cls, res |-> Object_prepare(eobj[cls]).delay]
    /\ egiven' = Since(cls, "prepare")
    /\ UNCHANGED <<netVars, dispVars, blockVars, loopVars, heap, flagVars, treeVars, callVars, eeprom>>

\* obj->update()
Update(cls) ==
    /\ eobj' = [eobj EXCEPT ![cls] = Object_update(eobj[cls])]
    /\ eres' = [op |-> "update", cls |-> cls, res |-> 0]
    /\ egiven' = Since(cls, "update")
    /\ UNCHANGED <<netVars, dispVars, blockVars, loopVars, heap, flagVars, treeVars, callVars, eeprom>>

\* obj->readTo(out)
ReadTo(cls) ==
    /\ eres' = [op |-> "readTo", cls |-> cls, res |-> Value_readTo(eobj[cls])[1]]
    /\ egiven' = Since(cls, "readTo")
    /\ UNCHANGED <<netVars, dispVars, blockVars, loopVars, heap, flagVars, treeVars, callVars, eeprom, eobj>>

\* obj->writeFrom(dataIn), for the writable variant
WriteFrom(b) ==
    /\ eobj' = [eobj EXCEPT !["EepromAwareWritableValue"] =
                    WritableValue_writeFrom(eobj["EepromAwareWritableValue"], b)]
    /\ eres' = [op |-> "writeFrom", cls |-> "EepromAwareWritableValue", res |-> b]
    /\ egiven' = Since("EepromAwareWritableValue", "writeFrom")
    /\ UNCHANGED <<netVars, dispVars, blockVars, loopVars, heap, flagVars, treeVars, callVars, eeprom>>

PersistedNext ==
    \/ \E cls \in EepromAwareClasses, a \in LoadAddresses : Rehydrated(cls, a)
    \/ \E cls \in EepromAwareClasses : Prepare(cls)
    \/ \E cls \in EepromAwareClasses : Update(cls)
    \/ \E cls \in EepromAwareClasses : ReadTo(cls)
    \/ \E b \in StreamBytes : WriteFrom(b)
    \/ \E cls \in EepromAwareClasses : EepromOffset(cls)

SpecPersisted == TreeInit /\ [][PersistedNext]_vars

\* ----------------------------------------------------------- claim C11
\* C11: once rehydrated(a) has been invoked on an EepromAwareValue or an
\* EepromAwareWritableValue, eeprom_offset() returns a in every later state,
\* whatever lifecycle operations (rehydrated(), prepare(), update()) and stream
\* operations are applied to the object afterwards.
C11_AddressImmutableOnceSet ==
    \A cls \in EepromAwareClasses :
        egiven[cls].called =>
            /\ eeprom_offset(cls, eobj[cls]) = egiven[cls].first
            /\ (eres.op = "eeprom_offset" /\ eres.cls = cls) => eres.res = egiven[cls].first

\* ------------------------------------------------- two-phase update
\* The time before which update() must not be called: t + d.
DueTime(st) == U32_Add(st.t, st.d)

UpdateDue_Always(st, now) == TRUE

\* Whether the delay asked for by prepare() has elapsed at time now.
UpdateDue(st, now) == ~U32_Gt(DueTime(st), now)

\* The update step for the objects o..NumResident at time now: an object between
\* cycles is prepared (ds[o] being the delay its prepare() returns), a prepared
\* object whose delay has elapsed is updated, a prepared object still waiting is
\* passed over.
RECURSIVE UpdateFrom(_, _, _, _, _)
UpdateFrom(s, o, now, ds, ev) ==
    IF o > NumResident THEN [sched |-> s, events |-> ev]
    ELSE LET st == IF s[o].phase = "idle"
                   THEN [phase |-> "prepared", t |-> now, d |-> ds[o]]
                   ELSE s[o]
             ev1 == IF s[o].phase = "idle"
                    THEN Append(ev, [o |-> o, op |-> "prepare", d |-> ds[o]])
                    ELSE ev
         IN IF UpdateDue(st, now)
            THEN UpdateFrom([s EXCEPT ![o] = Idle], o + 1, now, ds,
                            Append(ev1, [o |-> o, op |-> "update", d |-> 0]))
            ELSE UpdateFrom([s EXCEPT ![o] = st], o + 1, now, ds, ev1)

\* updateBrewbloxBox() at time now.
updateBrewbloxBox(s, now, ds) == UpdateFrom(s, 1, now, ds, <<>>)

\* The control loop runs the update step.
UpdateBox(ds) ==
    /\ LET r == updateBrewbloxBox(sched, ticks, ds)
       IN /\ sched' = r.sched
          /\ pass' = [op |-> "update", pre |-> sched, at |-> ticks, events |-> r.events]
    /\ UNCHANGED <<netVars, dispVars, blockVars, eepromVars, heap, flagVars, treeVars, callVars, ticks>>

\* A millisecond passes.
Tick ==
    /\ U32_Gt(U32_FromInt(MaxTime), ticks)
    /\ ticks' = U32_Add(ticks, 1)
    /\ UNCHANGED <<netVars, dispVars, blockVars, eepromVars, heap, flagVars, treeVars, callVars, sched, pass>>

UpdateNext ==
    \/ \E ds \in [1..NumResident -> 0..MaxDelay] : UpdateBox(ds)
    \/ Tick

SpecUpdate == TreeInit /\ [][UpdateNext]_vars

\* ----------------------------------------------------------- claim C12
\* The positions in the pass's calls of the given call on object o.
PassCalls(o, op) == {i \in DOMAIN pass.events : pass.events[i].o = o /\ pass.events[i].op = op}

\* The prepare() an update() of object o in the last pass answers to: the one
\* made earlier in the pass, or else the one the object was waiting on before.
PreparedBy(o) ==
    IF PassCalls(o, "prepare") # {}
    THEN [t |-> pass.at, d |-> pass.events[CHOOSE i \in PassCalls(o, "prepare") : TRUE].d,
          found |-> TRUE]
    ELSE [t |-> pass.pre[o].t, d |-> pass.pre[o].d, found |-> pass.pre[o].phase = "prepared"]

\* C12: in every run of the update step and for every resident object, update()
\* is invoked only after a prepare() call on that object in the same cycle, and
\* if that prepare() returned delay d at time t, not before time t + d; an
\* object waiting out its delay does not block the prepare() / update() of the
\* other objects.
C12_TwoPhaseUpdate ==
    pass.op = "update" =>
        \A o \in 1..NumResident :
            /\ Cardinality(PassCalls(o, "update")) <= 1
            /\ Cardinality(PassCalls(o, "prepare")) <= 1
            /\ \A u \in PassCalls(o, "update") :
                  /\ PreparedBy(o).found
                  /\ \A p \in PassCalls(o, "prepare") : p < u
                  /\ ~U32_Gt(U32_Add(PreparedBy(o).t, PreparedBy(o).d), pass.at)
            /\ pass.pre[o].phase = "prepared" => PassCalls(o, "prepare") = {}
            /\ pass.pre[o].phase = "idle" => PassCalls(o, "prepare") # {}
            /\ (PreparedBy(o).found
                  /\ ~U32_Gt(U32_Add(PreparedBy(o).t, PreparedBy(o).d), pass.at)) =>
                    PassCalls(o, "update") # {}

\* C12 witness: in one pass the first object is still waiting out its delay
\* (no call is made on it) while the second, prepared in an earlier pass with a
\* delay that has elapsed by now, is updated.
C12_Witness ==
    /\ pass.op = "update"
    /\ pass.pre[1].phase = "prepared"
    /\ PassCalls(1, "update") = {}
    /\ pass.pre[2].phase = "prepared"
    /\ pass.pre[2].d > 0
    /\ PassCalls(2, "update") # {}

\* ------------------------------------------------------- SysInfoBlock
\* update_never(now): the answer that no further update is needed.
update_never(now) == [never |-> TRUE, now |-> now]

\* The times update() is called at.
UpdateTimes == {0, 1000}

\* streamProtoTo(out, &message, ...): the encoded message goes to the stream.
streamProtoTo(out) == [res |-> "OK", out |-> Append(out, "blox_SysInfo")]

\* SysInfoBlock::streamTo(out)
SysInfoBlock_streamTo(b, in, out) ==
    [res |-> streamProtoTo(out).res, blk |-> b, in |-> in, out |-> streamProtoTo(out).out]

SysInfoBlock_streamFrom_Reads(b, in, out) ==
    [res |-> "OK", blk |-> b, in |-> IF in = <<>> THEN in ELSE Tail(in), out |-> out]

\* SysInfoBlock::streamFrom(in)
SysInfoBlock_streamFrom(b, in, out) ==
    [res |-> "OBJECT_NOT_WRITABLE", blk |-> b, in |-> in, out |-> out]

\* SysInfoBlock::streamPersistedTo(out)
SysInfoBlock_streamPersistedTo(b, in, out) ==
    [res |-> "OK", blk |-> b, in |-> in, out |-> out]

\* SysInfoBlock::update(now)
SysInfoBlock_update(b, now) == [res |-> update_never(now), blk |-> b]

\* What a call on the block leaves behind.
BlockCall(op, now, r) ==
    /\ blk' = r.blk
    /\ sin' = r.in
    /\ sout' = r.out
    /\ sres' = [op |-> op, res |-> r.res, now |-> now,
                pre |-> [blk |-> blk, in |-> sin, out |-> sout]]
    /\ UNCHANGED <<netVars, dispVars, loopVars, eepromVars, heap, flagVars, treeVars, callVars>>

StreamTo ==
    /\ Len(sout) < MaxOut
    /\ BlockCall("streamTo", 0, SysInfoBlock_streamTo(blk, sin, sout))

StreamFrom == BlockCall("streamFrom", 0, SysInfoBlock_streamFrom(blk, sin, sout))

StreamPersistedTo ==
    BlockCall("streamPersistedTo", 0, SysInfoBlock_streamPersistedTo(blk, sin, sout))

BlockUpdate(now) ==
    BlockCall("update", now,
              [res |-> SysInfoBlock_update(blk, now).res, blk |-> SysInfoBlock_update(blk, now).blk,
               in |-> sin, out |-> sout])

\* A command arrives: the caller has a DataIn with new content.
Receive(in) ==
    /\ sin # in
    /\ sin' = in
    /\ sres' = NoBlockCall
    /\ UNCHANGED <<netVars, dispVars, loopVars, eepromVars, heap, flagVars, treeVars, callVars, blk, sout>>

BlockNext ==
    \/ \E in \in InStreams : Receive(in)
    \/ StreamTo
    \/ StreamFrom
    \/ StreamPersistedTo
    \/ \E now \in UpdateTimes : BlockUpdate(now)

SpecBlock == TreeInit /\ [][BlockNext]_vars

\* ----------------------------------------------------------- claim C13
\* C13: for the read-only SysInfoBlock, streamFrom(in) returns
\* OBJECT_NOT_WRITABLE for every input and changes no state of the block (nor
\* reads from the stream), streamPersistedTo(out) returns OK and writes no
\* byte, and update(now) always answers that the block never needs updating.
C13_SysInfoBlockIsReadOnly ==
    /\ sres.op = "streamFrom" =>
          /\ sres.res = "OBJECT_NOT_WRITABLE"
          /\ blk = sres.pre.blk
          /\ sin = sres.pre.in
          /\ sout = sres.pre.out
    /\ sres.op = "streamPersistedTo" =>
          /\ sres.res = "OK"
          /\ sout = sres.pre.out
          /\ blk = sres.pre.blk
    /\ sres.op = "update" =>
          /\ sres.res = update_never(sres.now)
          /\ blk = sres.pre.blk

\* C13 witness: streamFrom was called with a DataIn holding three bytes, after
\* the block had been streamed out once.
C13_Witness ==
    /\ sres.op = "streamFrom"
    /\ Len(sres.pre.in) = MaxIn
    /\ sres.pre.out # <<>>
    /\ sres.res = "OBJECT_NOT_WRITABLE"

\* ------------------------------------------------------ claims C14, C15
\* Whether the last resolution failed.
LookupFailed ==
    /\ lres.op \in {"lookup", "lookupContainer"}
    /\ lres.res = NULL

\* What resolving chain in heap h gives: the class of the object, and the
\* object itself unless a factory container made it for the occasion.
Resolves(h, chain) ==
    LET r == lookupUserObject(WalkStore(h), Root, chain)
    IN [class |-> IF r.res = NULL THEN "null" ELSE r.h[r.res].cls,
        obj |-> IF r.res \in Cells THEN r.res ELSE NULL]

\* C14: a failed id-chain resolution (out-of-range id, a non-container where a
\* container is required, a chain deeper than MAX_CONTAINER_DEPTH) is reported
\* through its return value only (a null object, and INVALID_ID as last id in
\* the container form) and leaves the container tree unchanged: no slot is
\* added, removed or replaced, no object is created or destroyed, and a later
\* resolution of any valid chain gives the same result as before the failed
\* call.
C14_FailedLookupLeavesTree ==
    LookupFailed =>
        /\ lres.op = "lookupContainer" => lres.lastID = INVALID_ID
        /\ borrowed = {}
        /\ \A c \in Cells :
              /\ Live(lres.pre, c) <=> Live(heap, c)
              /\ Live(lres.pre, c) => heap[c] = lres.pre[c]
        /\ \A chain \in InstalledChains(lres.pre) :
              Resolves(heap, chain) = Resolves(lres.pre, chain)

\* C14 witness: a resolution failed on a non-container two levels below the
\* root where a container was required, after borrowing and returning the
\* containers on the way.
C14_Witness ==
    /\ LookupFailed
    /\ lres.op = "lookup"
    /\ Len(lres.chain) = 3
    /\ ClassAt(lres.pre, SubSeq(lres.chain, 1, 2)) \in {"Value", "WritableValue"}
    /\ \E i \in DOMAIN lres.log : lres.log[i].ev = "returnItem" /\ lres.log[i].c = Root

\* The number of ids of the chain up to and including the first that reaches
\* no object or an object that is not a container.
IdsNeeded(h, chain) ==
    LET ends == {i \in 1..Len(chain) : ClassAt(h, SubSeq(chain, 1, i)) \notin ContainerClasses}
    IN IF ends = {} THEN Len(chain) ELSE CHOOSE i \in ends : \A j \in ends : i <= j

\* The smaller of two numbers.
Min(a, b) == IF a < b THEN a ELSE b

\* C15: a resolution call consumes at most MAX_CONTAINER_DEPTH id bytes of the
\* stream, stops consuming at the first id that reaches a terminal
\* (non-container) object or fails, and never descends more than
\* MAX_CONTAINER_DEPTH container levels.
C15_LookupConsumesWhatItNeeds ==
    lres.op = "lookup" =>
        /\ lres.consumed <= MAX_CONTAINER_DEPTH
        /\ lres.consumed = Min(IdsNeeded(lres.pre, lres.chain), MAX_CONTAINER_DEPTH)
        /\ Cardinality({i \in DOMAIN lres.log : lres.log[i].ev = "item"}) = lres.consumed

\* C15 witness: the stream held four ids, the first three of which led through
\* containers; the resolution read three of them.
C15_Witness ==
    /\ lres.op = "lookup"
    /\ Len(lres.chain) = MAX_CONTAINER_DEPTH + 1
    /\ IdsNeeded(lres.pre, lres.chain) = MAX_CONTAINER_DEPTH + 1
    /\ lres.consumed = MAX_CONTAINER_DEPTH

\* ----------------------------------------------------------- claim C16
\* What item(i) of container c returns in heap h.
Slot(h, c, i) == item(h, c, i).res

\* C16: for an OpenContainer, once add(index, item) has returned true,
\* item(index) returns that same item in every later state until remove(index)
\* is called or the container is torn down (borrowing and returning the item
\* does not vacate the slot); when add(index, item) returns false the
\* container's contents are unchanged.
C16_AddedItemStaysUntilRemoved ==
    [][\A c \in Cells :
          (Live(heap, c) /\ isOpenContainer(heap, c) /\ Live(heap', c)) =>
              /\ (last'.op = "add" /\ last'.c = c /\ last'.ok) =>
                    Slot(heap', c, last'.id) = last'.res
              /\ (last'.op = "add" /\ last'.c = c /\ ~last'.ok) =>
                    /\ heap'[c] = heap[c]
                    /\ \A i \in 0..(size(heap, c) - 1) : Slot(heap', c, i) = Slot(heap, c, i)
              /\ \A i \in 0..(size(heap, c) - 1) :
                    (Slot(heap, c, i) # NULL
                       /\ ~(last'.op = "remove" /\ last'.c = c /\ last'.id = i)) =>
                          Slot(heap', c, i) = Slot(heap, c, i)
      ]_vars

\* C16 witness: an item installed in an open container was borrowed and given
\* back, and item() of its slot still returns it.
C16_Witness ==
    /\ last.op = "returnItem"
    /\ last.res # NULL
    /\ Live(heap, last.c)
    /\ isOpenContainer(heap, last.c)
    /\ heap[last.c].impl = "slots"
    /\ Slot(heap, last.c, last.id) = last.res
    /\ Live(heap, last.res)

\* ------------------------------------------------------------ next()
\* A caller asks an open container for its next free slot.  When the call
\* follows a remove() on the same container, obs keeps the id removed and what
\* next() had answered before the remove (if it was asked).
NextFree(c) ==
    /\ Live(heap, c)
    /\ isOpenContainer(heap, c)
    /\ last' = [op |-> "next", c |-> c, id |-> next(heap, c), res |-> NULL, ok |-> TRUE,
                paired |-> FALSE, fresh |-> FALSE,
                obs |-> IF last.op = "remove" /\ last.c = c
                        THEN <<last.id>> \o last.obs ELSE <<>>]
    /\ UNCHANGED <<netVars, dispVars, blockVars, loopVars, eepromVars, flagVars, callVars, heap, borrowed, handed>>

\* A root that is an open user container with a value in its first slot and
\* the other slots free; the rest of the store is unused.
OpenRootHeap ==
    [c \in Cells |->
        CASE c = Root -> NewSlotContainer("OpenContainer",
                                          [i \in 1..SlotCount |-> IF i = 1 THEN 2 ELSE NULL])
          [] c = 2 -> NewObject("Value", 0)
          [] OTHER -> FreeCell]

OpenInit ==
    /\ heap = OpenRootHeap
    /\ fptr = NULL
    /\ fres = NoAnswer
    /\ borrowed = {}
    /\ handed = {}
    /\ last = NoCall
    /\ lres = NoLookup
    /\ wres = NoWalk
    /\ EepromStart
    /\ LoopStart
    /\ BlockStart
    /\ DisplayStart
    /\ NetStart

\* The objects a caller constructs here: a value and an OpenContainer of
\* Values.h (size 0, no add).
OpenKinds == {"Value", "OpenContainer"}

OpenNext ==
    \/ \E c \in Cells, index \in IndexInputs, kind \in OpenKinds : Add(c, index, kind)
    \/ \E c \in Cells, id \in IndexInputs : Remove(c, id)
    \/ \E c \in Cells : NextFree(c)

SpecOpen == OpenInit /\ [][OpenNext]_vars

\* ----------------------------------------------------------- claim C17
\* C17: in every reachable state of an OpenContainer, after any sequence of add
\* and remove calls, next() returns the lowest id whose slot is free
\* (item(next()) is null and every lower id is occupied), or -1 when no slot is
\* free; the base OpenContainer, which has size 0 and rejects every add, always
\* returns -1.
C17_NextIsLowestFreeSlot ==
    /\ \A c \in Cells :
          (Live(heap, c) /\ isOpenContainer(heap, c)) =>
              LET n == next(heap, c)
                  ids == 0..(size(heap, c) - 1)
              IN /\ n = -1 \/ n \in ids
                 /\ n = -1 => \A i \in ids : Slot(heap, c, i) # NULL
                 /\ n # -1 => (Slot(heap, c, n) = NULL
                                 /\ \A j \in ids : j < n => Slot(heap, c, j) # NULL)
                 /\ heap[c].impl = "base" => (n = -1 /\ size(heap, c) = 0)
    /\ (last.op = "next" /\ Live(heap, last.c)) => last.id = next(heap, last.c)

\* C17 witness: next() answered -1 for an open container all of whose slots were
\* taken, remove(1) was then called on it, and next() now answers 1, slots 0
\* and 2 being still taken.
C17_Witness ==
    /\ last.op = "next"
    /\ last.id = 1
    /\ last.obs = <<1, -1>>
    /\ Live(heap, last.c)
    /\ size(heap, last.c) = SlotCount
    /\ Slot(heap, last.c, 0) # NULL
    /\ Slot(heap, last.c, 1) = NULL
    /\ Slot(heap, last.c, 2) # NULL

\* ----------------------------------------------------------- claim C18
\* C18, as stated: for every type in the lattice, isWritable(o) is true only if
\* isValue(o) is true (never of a container), and isOpenContainer(o) is never
\* true of a value.
C18_WritableOnlyValues ==
    (fres.asked /\ fptr # NULL /\ heap[fptr].cls \in Lattice) =>
        /\ fres.isWritable => fres.isValue
        /\ fres.isValue => ~fres.isOpenContainer

\* C18, amended: for every type in the lattice, isWritable(o) is true only if
\* isValue(o) or isOpenContainer(o) is true (WritableFlag and OpenContainerFlag
\* are the same bit: an open container is reported writable), it is never true
\* of a container that is not open, and isOpenContainer(o) is never true of a
\* value.
C18_WritableValuesAndOpenContainers ==
    (fres.asked /\ fptr # NULL /\ heap[fptr].cls \in Lattice) =>
        /\ fres.isWritable => (fres.isValue \/ fres.isOpenContainer)
        /\ (fres.isContainer /\ ~fres.isOpenContainer) => ~fres.isWritable
        /\ fres.isOpenContainer => fres.isWritable
        /\ fres.isValue => ~fres.isOpenContainer
        /\ fres.isValue => ~fres.isContainer

\* C18 witness: the predicates were asked about an OpenContainer and answered
\* that it is writable and not a value.
C18_Witness ==
    /\ fres.asked
    /\ fptr # NULL
    /\ heap[fptr].cls = "OpenContainer"
    /\ fres.isWritable
    /\ fres.isOpenContainer
    /\ ~fres.isValue

\* -------------------------------------------------------- displayTick
\* displayTick() at tick now with static lastTick lt: the display is polled
\* and lastTick moves to now when now > lastTick + 40, the sum being taken in
\* ticks_millis_t.
displayTick(lt, now) ==
    IF U32_Gt(now, U32_Add(lt, DisplayPeriod))
    THEN [lastTick |-> now, polled |-> TRUE]
    ELSE [lastTick |-> lt, polled |-> FALSE]

\* The loop calls displayTick().
DisplayTick ==
    /\ lastTick' = displayTick(lastTick, ticks).lastTick
    /\ disp' = [op |-> "displayTick", now |-> ticks, prev |-> lastTick,
                polled |-> displayTick(lastTick, ticks).polled,
                before |-> disp.before \/ disp.polled]
    /\ UNCHANGED <<netVars, blockVars, loopVars, eepromVars, heap, flagVars, treeVars, callVars, jumps>>

\* The stretches of time that pass between two calls: 1, 40 and 41 ms, and a
\* stretch that takes the counter close to its wrap-around.
Advances == {<<0, 1>>, <<0, DisplayPeriod>>, <<0, DisplayPeriod + 1>>, <<Half - 1, Half - 60>>}

\* Time passes; the tick counter wraps around at 2^32.
Elapse(n) ==
    /\ jumps < MaxJumps
    /\ jumps' = jumps + 1
    /\ ticks' = U32_Plus(ticks, n)
    /\ UNCHANGED <<netVars, blockVars, eepromVars, heap, flagVars, treeVars, callVars, sched, pass,
                   lastTick, disp>>

DisplayNext ==
    \/ DisplayTick
    \/ \E n \in Advances : Elapse(n)

SpecDisplay == TreeInit /\ [][DisplayNext]_vars

\* ----------------------------------------------------------- claim C20
\* The time from tick x to tick y on the wrapping counter.
TicksSince(x, y) == U32_Minus(y, x)

\* C20: the display is polled in a displayTick call iff the tick counter is
\* more than 40 past the tick recorded at the previous poll, so that two
\* consecutive polls are more than 40 ms apart, also when the tick counter or
\* the sum lastTick + 40 wraps around; and as long as no poll has been made, a
\* call with a tick greater than 0 polls.
C20_PollsMoreThan40Apart ==
    disp.op = "displayTick" =>
        IF disp.before
        THEN disp.polled <=>
                U32_Gt(TicksSince(disp.prev, disp.now), U32_FromInt(DisplayPeriod))
        ELSE U32_Gt(disp.now, U32_FromInt(0)) => disp.polled

\* ------------------------------------------------------ the control loop
\* The tick before which setup() does not return:
\* while (ticks.millis() < 5000) displayTick();
BootWait == 5000

\* delay(5), after the reply to an http client.
ClientDelay == 5

manageConnections_IgnoresBegin(w, started, beginOk, client) ==
    IF ~w.ready \/ w.listening
    THEN [started |-> started, client |-> FALSE,
          ev |-> IF ~w.connecting THEN <<"WiFi.connect">> ELSE <<>>]
    ELSE [started |-> TRUE,
          client |-> client,
          ev |-> IF ~started THEN <<"mdns.begin">> ELSE <<"mdns.processQueries">>]

\* manageConnections() up to httpserver.available(): w is what WiFi answers,
\* beginOk what mdns.begin(true) would return, client whether
\* httpserver.available() has a client; the result says whether a client is to
\* be answered.
manageConnections(w, started, beginOk, client) ==
    IF ~w.ready \/ w.listening
    THEN [started |-> started, client |-> FALSE,
          ev |-> IF ~w.connecting THEN <<"WiFi.connect">> ELSE <<>>]
    ELSE [started |-> IF ~started THEN beginOk ELSE started,
          client |-> client,
          ev |-> IF ~started THEN <<"mdns.begin">> ELSE <<"mdns.processQueries">>]

\* One turn of while (ticks.millis() < 5000) displayTick(); st.ticks is the
\* tick the loop condition reads, step the time that passes from one reading
\* of ticks.millis() to the next; st.disp is the last displayTick call and
\* st.polls the polls made so far. When the condition fails the loop is over.
WaitTurn(st, step) ==
    IF ~U32_Gt(U32_FromInt(BootWait), st.ticks)
    THEN [st EXCEPT !.done = TRUE]
    ELSE [done |-> FALSE,
          lastTick |-> displayTick(st.lastTick, U32_Add(st.ticks, step)).lastTick,
          ticks |-> U32_Add(st.ticks, 2 * step),
          disp |-> [op |-> "displayTick", now |-> U32_Add(st.ticks, step),
                    prev |-> st.lastTick,
                    polled |-> displayTick(st.lastTick, U32_Add(st.ticks, step)).polled,
                    before |-> st.disp.before \/ st.disp.polled],
          polls |-> st.polls
                    + (IF displayTick(st.lastTick, U32_Add(st.ticks, step)).polled
                       THEN 1 ELSE 0)]

\* loop() from the return of manageConnections() on: listening is what
\* WiFi.listening() answers, now the tick at that point, e1 the time that
\* passes until updateBrewbloxBox() reads the tick, e2 the time from there
\* until displayTick() reads it.
loop(listening, s, lt, now, e1, e2, ds) ==
    LET u == updateBrewbloxBox(s, U32_Add(now, e1), ds)
        d == displayTick(lt, U32_Add(now, e1 + e2))
    IN [sched |-> u.sched,
        events |-> u.events,
        updateAt |-> U32_Add(now, e1),
        ticks |-> U32_Add(now, e1 + e2),
        lastTick |-> d.lastTick,
        polled |-> d.polled,
        trace |-> (IF ~listening THEN <<"hexCommunicate">> ELSE <<>>)
                  \o <<"updateBrewbloxBox", "displayTick", "watchdogCheckin">>]

\* Whether the call is among those of the trace.
Called(trace, call) == \E i \in DOMAIN trace : trace[i] = call

\* What has been called on mdns, after the calls of the trace.
MdnsAfter(trace, beginOk) ==
    [begun |-> mdns.begun \/ (Called(trace, "mdns.begin") /\ beginOk),
     beginAgain |-> mdns.beginAgain \/ (mdns.begun /\ Called(trace, "mdns.begin")),
     queriesEarly |-> mdns.queriesEarly \/ (~mdns.begun /\ Called(trace, "mdns.processQueries"))]

\* The application thread enters manageConnections() from setup() or loop() and
\* runs it up to httpserver.available(): with a client it goes on to read the
\* request, without one the call returns.
EnterManage(caller, w, beginOk, client) ==
    /\ \E m \in {manageConnections(w, mdns_started, beginOk, client)} :
          /\ mdns_started' = m.started
          /\ mdns' = MdnsAfter(m.ev, beginOk)
          /\ wifi' = w
          /\ lp' = [NoLoop EXCEPT !.op = caller,
                                  !.pc = IF m.client THEN "read" ELSE "managed",
                                  !.trace = <<"manageConnections">> \o m.ev]
    /\ UNCHANGED <<dispVars, blockVars, loopVars, eepromVars, heap, flagVars, treeVars, callVars>>

\* The system calls setup(), once: lines 141-159, up to the point where
\* manageConnections() (PLATFORM_ID == 3) reads from a client or has returned.
SetupBegin(platform3, w, beginOk, client) ==
    /\ lp.op = "none"
    /\ IF platform3
       THEN EnterManage("setup", w, beginOk, client)
       ELSE /\ lp' = [NoLoop EXCEPT !.op = "setup", !.pc = "managed"]
            /\ UNCHANGED <<wifi, mdns_started, mdns, dispVars, blockVars, loopVars, eepromVars,
                           heap, flagVars, treeVars, callVars>>

\* while (client.read() != -1) has come to its end: the reply is written and
\* flushed and the thread goes to sleep in delay(5).
ClientReply ==
    /\ lp.pc = "read"
    /\ lp' = [lp EXCEPT !.pc = "delay", !.trace = Append(@, "client.write")]
    /\ UNCHANGED <<wifi, mdns_started, mdns, dispVars, blockVars, loopVars, eepromVars, heap,
                   flagVars, treeVars, callVars>>

\* delay(5) is over: client.stop(), and manageConnections() returns.
ClientStop ==
    /\ lp.pc = "delay"
    /\ ticks' = U32_Add(ticks, ClientDelay)
    /\ lp' = [lp EXCEPT !.pc = "managed", !.trace = Append(@, "client.stop"),
                        !.handler = FALSE]
    /\ UNCHANGED <<wifi, mdns_started, mdns, dispVars, blockVars, eepromVars, heap, flagVars,
                   treeVars, callVars, sched, pass>>

\* System.on(setup_update, watchdogCheckin): the system calls the handler
\* while the application thread waits; the watchdog is checked in, nothing
\* else changes. lp.handler says that it has run during the present wait.
SetupUpdate ==
    /\ lp.pc \in {"read", "delay", "wait"}
    /\ ~lp.handler
    /\ lp' = [lp EXCEPT !.handler = TRUE]
    /\ UNCHANGED <<wifi, mdns_started, mdns, dispVars, blockVars, loopVars, eepromVars, heap,
                   flagVars, treeVars, callVars>>

\* The clocks setup() waits under: <<the time its initialisation takes, the
\* time from one reading of the tick counter to the next>>.
BootClocks == {<<0, 1>>, <<3, 7>>}

\* setup(), lines 162-183: the display, OneWire, the stored objects and mdns
\* are initialised; the wait for tick 5000 begins.
SetupInit(t0, step) ==
    /\ lp.op = "setup"
    /\ lp.pc = "managed"
    /\ ticks' = U32_Add(ticks, t0)
    /\ lp' = [lp EXCEPT !.pc = "wait", !.step = step, !.handler = FALSE]
    /\ UNCHANGED <<wifi, mdns_started, mdns, dispVars, blockVars, eepromVars, heap, flagVars,
                   treeVars, callVars, sched, pass>>

\* setup(), lines 185-189: one turn of the wait; when tick 5000 has come
\* setup() returns.
SetupTurn ==
    /\ lp.op = "setup"
    /\ lp.pc = "wait"
    /\ \E r \in {WaitTurn([done |-> FALSE, lastTick |-> lastTick, ticks |-> ticks,
                           disp |-> disp, polls |-> lp.polls], lp.step)} :
          /\ ticks' = r.ticks
          /\ lastTick' = r.lastTick
          /\ disp' = r.disp
          /\ lp' = [lp EXCEPT !.pc = IF r.done THEN "idle" ELSE "wait", !.polls = r.polls,
                              !.handler = IF r.done THEN FALSE ELSE @]
    /\ UNCHANGED <<wifi, mdns_started, mdns, blockVars, eepromVars, heap, flagVars, treeVars,
                   callVars, sched, pass, jumps>>

\* The system calls loop(), again and again once setup() has returned: line
\* 195, up to the point where manageConnections() reads from a client or has
\* returned.
LoopBegin(w, beginOk, client) ==
    /\ lp.op # "none"
    /\ lp.pc = "idle"
    /\ U32_Gt(U32_FromInt(BootWait + MaxLoopTime), ticks)
    /\ EnterManage("loop", w, beginOk, client)

\* The time that passes in the rest of a pass: <<before updateBrewbloxBox()
\* reads the tick, from there until displayTick() reads it>>.
PassLags == {<<0, 0>>, <<DisplayPeriod, 1>>}

\* The delays the prepare() calls of a pass return.
PassDelays == {[o \in 1..NumResident |-> 0], [o \in 1..NumResident |-> IF o = 1 THEN 0 ELSE MaxDelay]}

\* loop(), lines 197-205, after manageConnections() has returned.
LoopRest(listening, e1, e2, ds) ==
    /\ lp.op = "loop"
    /\ lp.pc = "managed"
    /\ \E r \in {loop(listening, sched, lastTick, ticks, e1, e2, ds)} :
          /\ sched' = r.sched
          /\ pass' = [op |-> "update", pre |-> sched, at |-> r.updateAt, events |-> r.events]
          /\ ticks' = r.ticks
          /\ lastTick' = r.lastTick
          /\ disp' = [op |-> "displayTick", now |-> r.ticks, prev |-> lastTick,
                      polled |-> r.polled, before |-> disp.before \/ disp.polled]
          /\ lp' = [lp EXCEPT !.pc = "idle", !.trace = @ \o r.trace,
                              !.listening = listening, !.updateAt = r.updateAt,
                              !.polls = IF r.polled THEN 1 ELSE 0]
    /\ UNCHANGED <<wifi, mdns_started, mdns, blockVars, eepromVars, heap, flagVars, treeVars,
                   callVars, jumps>>

LoopNext ==
    \/ \E platform3 \in BOOLEAN, w \in WifiAnswers, beginOk \in BOOLEAN, client \in BOOLEAN :
            SetupBegin(platform3, w, beginOk, client)
    \/ ClientReply
    \/ ClientStop
    \/ SetupUpdate
    \/ \E clock \in BootClocks : SetupInit(clock[1], clock[2])
    \/ SetupTurn
    \/ \E w \in WifiAnswers, beginOk \in BOOLEAN, client \in BOOLEAN : LoopBegin(w, beginOk, client)
    \/ \E listening \in BOOLEAN, lag \in PassLags, ds \in PassDelays :
            LoopRest(listening, lag[1], lag[2], ds)

SpecLoop == TreeInit /\ [][LoopNext]_vars

\* ----------------------------------------------------------- claim C19
\* The five steps of a pass.
IsStep(call) ==
    call \in {"manageConnections", "hexCommunicate", "updateBrewbloxBox", "displayTick",
              "watchdogCheckin"}

\* C19: in every pass of the control loop the steps run in the order
\* manageConnections, command servicing, updateBrewbloxBox, displayTick,
\* watchdogCheckin; the object updates and the watchdog check-in happen in every
\* pass whatever the network state, while hexCommunicate is serviced in a pass
\* iff WiFi is not in listening mode at that point; and mdns.processQueries is
\* never invoked before an earlier mdns.begin has returned true, after which
\* begin is not invoked again.
C19_LoopOrderAndMdns ==
    /\ (lp.op = "loop" /\ lp.pc = "idle") =>
          /\ SelectSeq(lp.trace, IsStep) =
                IF lp.listening
                THEN <<"manageConnections", "updateBrewbloxBox", "displayTick",
                       "watchdogCheckin">>
                ELSE <<"manageConnections", "hexCommunicate", "updateBrewbloxBox",
                       "displayTick", "watchdogCheckin">>
          /\ pass.op = "update" /\ pass.at = lp.updateAt
          /\ disp.op = "displayTick" /\ disp.now = ticks
          /\ ~U32_Gt(pass.at, disp.now)
    /\ ~mdns.queriesEarly
    /\ ~mdns.beginAgain
    /\ mdns_started <=> mdns.begun

\* C19 witness: mdns.begin has returned true in an earlier pass; in this pass
\* WiFi was connected when manageConnections ran (it processed the mdns
\* queries) and had gone into listening mode when the loop came to the command
\* stream, which was not serviced.
C19_Witness ==
    /\ lp.op = "loop"
    /\ lp.pc = "idle"
    /\ mdns.begun
    /\ Called(lp.trace, "mdns.processQueries")
    /\ lp.listening
    /\ ~Called(lp.trace, "hexCommunicate")
    /\ Called(lp.trace, "watchdogCheckin")

====
